---- MODULE Spec2Model ----
(***************************************************************************)
(* Model of the graph-fusion expansion loop of compliance_checking:        *)
(* utils/fusion_graph_builder/__init__.py (build_fusion_graph,             *)
(* _expand_once, the relevance filter, the edge deduplicator) with the     *)
(* three source adapters it calls.                                         *)
(*                                                                         *)
(* A Python str is a sequence of one-character strings, so that            *)
(* whitespace normalisation (_norm) and str.lower() are computed, not      *)
(* assumed.  None and a missing dict key are the empty sequence wherever   *)
(* the code reads them through `x or ""` / `.get(k, "")`.                  *)
(***************************************************************************)
EXTENDS Naturals, Sequences, FiniteSets, TLC

(***************************************************************************)
(* Bounds of the model.                                                    *)
(***************************************************************************)
MaxRounds == 3
MaxEvents == 2
MaxEdges == 2

(***************************************************************************)
(* Program constants (hyper-parameters of fusion_graph_builder).           *)
(***************************************************************************)
CONCEPT_MIN_WEIGHT == 4
CONCEPT_MAX == 3
ENTITY_MAX == 3

(***************************************************************************)
(* Strings.                                                                *)
(***************************************************************************)
UpperChars == <<"A","B","C","D","E","F","G","H","I","J","K","L","M",
                "N","O","P","Q","R","S","T","U","V","W","X","Y","Z">>
LowerChars == <<"a","b","c","d","e","f","g","h","i","j","k","l","m",
                "n","o","p","q","r","s","t","u","v","w","x","y","z">>

\* the characters U+0080..U+00BF and U+00C0..U+00FF, in code order
Latin1Low ==
    <<"", "", "", "", "", "", "", "", "", "", "", "", "", "", "", "",
      "", "", "", "", "", "", "", "", "", "", "", "", "", "", "", "",
      " ", "¡", "¢", "£", "¤", "¥", "¦", "§", "¨", "©", "ª", "«", "¬", "­", "®", "¯",
      "°", "±", "²", "³", "´", "µ", "¶", "·", "¸", "¹", "º", "»", "¼", "½", "¾", "¿">>
Latin1High ==
    <<"À", "Á", "Â", "Ã", "Ä", "Å", "Æ", "Ç", "È", "É", "Ê", "Ë", "Ì", "Í", "Î", "Ï",
      "Ð", "Ñ", "Ò", "Ó", "Ô", "Õ", "Ö", "×", "Ø", "Ù", "Ú", "Û", "Ü", "Ý", "Þ", "ß",
      "à", "á", "â", "ã", "ä", "å", "æ", "ç", "è", "é", "ê", "ë", "ì", "í", "î", "ï",
      "ð", "ñ", "ò", "ó", "ô", "õ", "ö", "÷", "ø", "ù", "ú", "û", "ü", "ý", "þ", "ÿ">>

IndexOf(s, c) == CHOOSE i \in 1..Len(s) : s[i] = c
Occurs(s, c) == \E i \in 1..Len(s) : s[i] = c

\* the printable ASCII characters U+0020..U+005F and U+0061..U+007E, in code
\* order (U+0060 cannot be written in a string constant)
PrintableLow ==
    <<" ", "!", "\"", "#", "$", "%", "&", "'", "(", ")", "*", "+", ",", "-", ".", "/",
      "0", "1", "2", "3", "4", "5", "6", "7", "8", "9", ":", ";", "<", "=", ">", "?",
      "@", "A", "B", "C", "D", "E", "F", "G", "H", "I", "J", "K", "L", "M", "N", "O",
      "P", "Q", "R", "S", "T", "U", "V", "W", "X", "Y", "Z", "[", "\\", "]", "^", "_">>
PrintableHigh ==
    <<"a", "b", "c", "d", "e", "f", "g", "h", "i", "j", "k", "l", "m", "n", "o",
      "p", "q", "r", "s", "t", "u", "v", "w", "x", "y", "z", "{", "|", "}", "~">>

\* the ASCII control characters that str.isspace() holds for, with their
\* codes: tab, line feed, vertical tab, form feed, carriage return and the
\* four separators U+001C..U+001F
Controls == <<"\t", "\n", "", "\f", "\r", "", "", "", "">>
ControlCodes == <<9, 10, 11, 12, 13, 28, 29, 30, 31>>
\* the other ASCII control characters, U+0001..U+0008, U+000E..U+001B and
\* U+007F, with their codes
OtherControls ==
    <<"", "", "", "", "", "", "", "", "", "", "", "", "", "", "", "",
      "", "", "", "", "", "", "">>
OtherControlCodes ==
    <<1, 2, 3, 4, 5, 6, 7, 8, 14, 15, 16, 17, 18, 19, 20, 21, 22, 23, 24, 25, 26, 27, 127>>
\* the Ogham space mark U+1680, a whitespace character above U+00FF
OghamSpace == " "

\* the alphabet of the model: the characters U+0001..U+00FF but U+0060, and
\* U+1680.  The operators on characters are defined on the alphabet and have
\* no value for a character outside it.
Alphabet ==
    {PrintableLow[i] : i \in 1..Len(PrintableLow)}
    \cup {PrintableHigh[i] : i \in 1..Len(PrintableHigh)}
    \cup {Controls[i] : i \in 1..Len(Controls)}
    \cup {OtherControls[i] : i \in 1..Len(OtherControls)}
    \cup {Latin1Low[i] : i \in 1..Len(Latin1Low)}
    \cup {Latin1High[i] : i \in 1..Len(Latin1High)}
    \cup {OghamSpace}

\* str.lower() on the alphabet: A-Z and the Latin-1 capitals U+00C0..U+00DE
\* (U+00D7, the multiplication sign, is not a letter), whose lower-case forms
\* stand 32 places further, are folded; no other character of the alphabet
\* has a different lower-case form
LowerOf ==
    [c \in Alphabet |->
        IF Occurs(UpperChars, c) THEN LowerChars[IndexOf(UpperChars, c)]
        ELSE IF c \in {Latin1High[i] : i \in (1..31) \ {24}}
             THEN Latin1High[IndexOf(Latin1High, c) + 32]
             ELSE c]

\* str.lower() on one character of the alphabet
LowerChar(c) == LowerOf[c]

\* str.lower()
Lower(s) == [i \in 1..Len(s) |-> LowerChar(s[i])]

\* the characters of the alphabet for which str.isspace() holds: the blank,
\* the ASCII controls above, next line U+0085, no-break space U+00A0 and the
\* Ogham space mark U+1680
Whitespace ==
    {" ", "", " ", OghamSpace} \cup {Controls[i] : i \in 1..Len(Controls)}

\* whether the regular expression \s matches a character of the alphabet
\* (and str.strip() removes it)
IsSpace(c) == CASE c \in Whitespace -> TRUE [] c \in Alphabet -> FALSE

\* [A-Za-z0-9]
IsAlnum(c) ==
    \/ \E i \in 1..26 : UpperChars[i] = c \/ LowerChars[i] = c
    \/ c \in {"0","1","2","3","4","5","6","7","8","9"}

RECURSIVE LStrip(_)
LStrip(s) == IF s # <<>> /\ IsSpace(Head(s)) THEN LStrip(Tail(s)) ELSE s

RECURSIVE RStrip(_)
RStrip(s) ==
    IF s # <<>> /\ IsSpace(s[Len(s)]) THEN RStrip(SubSeq(s, 1, Len(s) - 1)) ELSE s

\* str.strip()
Strip(s) == RStrip(LStrip(s))

\* re.sub(r"\s+", " ", s): every maximal run of whitespace becomes one blank
RECURSIVE CollapseSpaces(_)
CollapseSpaces(s) ==
    IF s = <<>> THEN <<>>
    ELSE IF IsSpace(Head(s)) THEN <<" ">> \o CollapseSpaces(LStrip(Tail(s)))
    ELSE <<Head(s)>> \o CollapseSpaces(Tail(s))

\* _norm(s) = re.sub(r"\s+", " ", (s or "").strip())
_norm(s) == CollapseSpaces(Strip(s))

\* str.startswith
StartsWith(s, p) == Len(s) >= Len(p) /\ SubSeq(s, 1, Len(p)) = p

\* the elements of a sequence
Range(s) == {s[i] : i \in 1..Len(s)}

\* all sequences over S of length at most n
SeqsUpTo(S, n) == UNION {[1..k -> S] : k \in 0..n}

(***************************************************************************)
(* Event records: a Python dict is the sequence of its (key, value) items  *)
(* in insertion order, keys distinct.                                      *)
(***************************************************************************)
K_Agent == <<"A","g","e","n","t">>
K_agent == <<"a","g","e","n","t">>
K_Agent1 == <<"A","g","e","n","t","1">>
K_agent1 == <<"a","g","e","n","t","1">>
K_Deontic == <<"D","e","o","n","t","i","c">>
K_deontic == <<"d","e","o","n","t","i","c">>
K_Action == <<"A","c","t","i","o","n">>
K_action == <<"a","c","t","i","o","n">>

\* dict.get(key): the value stored under key, None (here <<>>) when absent
Get(row, key) ==
    IF \E i \in 1..Len(row) : row[i][1] = key
    THEN row[CHOOSE i \in 1..Len(row) : row[i][1] = key][2]
    ELSE <<>>

\* a or b on strings
Or(a, b) == IF a # <<>> THEN a ELSE b

_is_agent_key(k) == Lower(k) = K_agent \/ StartsWith(Lower(k), K_agent)

\* lines 49-53: the value of the first key of the record that is an agent key
FirstAgentValue(row) ==
    IF \E i \in 1..Len(row) : _is_agent_key(row[i][1])
    THEN LET i == CHOOSE j \in 1..Len(row) :
                    /\ _is_agent_key(row[j][1])
                    /\ \A h \in 1..(j - 1) : ~_is_agent_key(row[h][1])
         IN  row[i][2]
    ELSE <<>>

\* lines 56-59: order-preserving case-insensitive dedup that drops ""
RECURSIVE UniqCI(_, _)
UniqCI(terms, seen) ==
    IF terms = <<>> THEN <<>>
    ELSE LET a == Head(terms) IN
         IF a # <<>> /\ Lower(a) \notin seen
         THEN <<a>> \o UniqCI(Tail(terms), seen \cup {Lower(a)})
         ELSE UniqCI(Tail(terms), seen)

\* mutant of AgentsOf: only the records that yield a seed edge give an agent
RECURSIVE AgentsOf_seededOnly(_)
AgentsOf_seededOnly(rows) ==
    IF rows = <<>> THEN <<>>
    ELSE LET cand == FirstAgentValue(Head(rows))
             seeded == /\ Or(Get(Head(rows), K_Deontic), Get(Head(rows), K_deontic)) # <<>>
                       /\ Or(Get(Head(rows), K_Action), Get(Head(rows), K_action)) # <<>>
         IN  (IF cand # <<>> /\ seeded THEN <<_norm(cand)>> ELSE <<>>)
             \o AgentsOf_seededOnly(Tail(rows))

\* lines 47-55: the normalised agent value of every record that has one
RECURSIVE AgentsOf(_)
AgentsOf(rows) ==
    IF rows = <<>> THEN <<>>
    ELSE LET cand == FirstAgentValue(Head(rows)) IN
         (IF cand # <<>> THEN <<_norm(cand)>> ELSE <<>>) \o AgentsOf(Tail(rows))

\* mutant of _extract_agents_from_eventic: the agent values are not deduplicated
_extract_agents_noDedup(rows) == AgentsOf(rows)

_extract_agents_from_eventic(rows) == UniqCI(AgentsOf(rows), {})

\* mutant of SeedComplete: only the agent is required
SeedComplete_agentOnly(agent, deon, act) == agent # <<>>

\* line 71: if agent and deon and act
SeedComplete(agent, deon, act) == agent # <<>> /\ deon # <<>> /\ act # <<>>

RECURSIVE _eventic_to_triples(_)
_eventic_to_triples(rows) ==
    IF rows = <<>> THEN <<>>
    ELSE LET row == Head(rows)
             agent == Or(Get(row, K_Agent), Or(Get(row, K_agent),
                      Or(Get(row, K_Agent1), Get(row, K_agent1))))
             deon == Or(Get(row, K_Deontic), Get(row, K_deontic))
             act == Or(Get(row, K_Action), Get(row, K_action))
         IN  (IF SeedComplete(agent, deon, act)
              THEN <<[source |-> _norm(agent), relation |-> _norm(deon),
                      target |-> _norm(act), source_graph |-> "eventic"]>>
              ELSE <<>>) \o _eventic_to_triples(Tail(rows))

(***************************************************************************)
(* Edge deduplicator.                                                      *)
(***************************************************************************)
\* mutant of EdgeSig: the relation is compared case-insensitively too
EdgeSig_relationLowered(e) ==
    <<Lower(_norm(e.source)), Lower(_norm(e.relation)), Lower(_norm(e.target)),
      e.source_graph>>

\* line 86: sig = (src.lower(), rel, tgt.lower(), g) of the normalised fields
EdgeSig(e) ==
    <<Lower(_norm(e.source)), _norm(e.relation), Lower(_norm(e.target)), e.source_graph>>

\* mutant of EdgeComplete: incomplete edges are kept
EdgeComplete_notChecked(e) == TRUE

\* line 87: an edge with an empty normalised field is skipped
EdgeComplete(e) ==
    _norm(e.source) # <<>> /\ _norm(e.relation) # <<>> /\ _norm(e.target) # <<>>

\* line 89: the record appended to out
EdgeOut(e) ==
    [source |-> _norm(e.source), relation |-> _norm(e.relation),
     target |-> _norm(e.target), source_graph |-> e.source_graph]

RECURSIVE DedupFrom(_, _)
DedupFrom(es, seen) ==
    IF es = <<>> THEN <<>>
    ELSE LET e == Head(es) IN
         IF ~EdgeComplete(e) \/ EdgeSig(e) \in seen
         THEN DedupFrom(Tail(es), seen)
         ELSE <<EdgeOut(e)>> \o DedupFrom(Tail(es), seen \cup {EdgeSig(e)})

\* mutant of _dedup_edges: edges are normalised and filtered but `seen` is not
\* consulted
RECURSIVE NormalizeOnly(_)
NormalizeOnly(es) ==
    IF es = <<>> THEN <<>>
    ELSE (IF EdgeComplete(Head(es)) THEN <<EdgeOut(Head(es))>> ELSE <<>>)
         \o NormalizeOnly(Tail(es))

_dedup_edges(es) == DedupFrom(es, {})

(***************************************************************************)
(* Concept adapter: utils/concept_graph_search.py.                         *)
(* The commonsense source is a function from the URL term to its response: *)
(* [ok, body, edges], ok = FALSE for a transport or JSON failure; body is  *)
(* the shape of the JSON received: "object" {"edges": [...]}, "array" (JSON*)
(* that is not an object) or "edges_null" {"edges": null}.  A raw edge is  *)
(* [null, weight, rel, start, end]: rel the "@id" of the relation, start   *)
(* and end nodes [label, id], null the member of the edge that is JSON     *)
(* null ("" when none is).                                                 *)
(***************************************************************************)
\* the UTF-8 bytes of a character of the alphabet: one byte for ASCII, two
\* for U+0080..U+00FF, three for U+1680
Utf8Bytes(c) ==
    CASE Occurs(PrintableLow, c) -> <<31 + IndexOf(PrintableLow, c)>>
      [] Occurs(PrintableHigh, c) -> <<96 + IndexOf(PrintableHigh, c)>>
      [] Occurs(Controls, c) -> <<ControlCodes[IndexOf(Controls, c)]>>
      [] Occurs(OtherControls, c) -> <<OtherControlCodes[IndexOf(OtherControls, c)]>>
      [] Occurs(Latin1Low, c) -> <<194, 127 + IndexOf(Latin1Low, c)>>
      [] Occurs(Latin1High, c) -> <<195, 127 + IndexOf(Latin1High, c)>>
      [] c = OghamSpace -> <<225, 154, 128>>

HexDigits == <<"0","1","2","3","4","5","6","7","8","9","A","B","C","D","E","F">>

\* "%XX" for every byte
RECURSIVE PercentEncoded(_)
PercentEncoded(bytes) ==
    IF bytes = <<>> THEN <<>>
    ELSE <<"%", HexDigits[(Head(bytes) \div 16) + 1], HexDigits[(Head(bytes) % 16) + 1]>>
         \o PercentEncoded(Tail(bytes))

\* urllib.parse.quote on one character: letters, digits and _ . - ~ / are kept,
\* every other character is percent-escaped byte by byte
QuoteChar(c) ==
    IF IsAlnum(c) \/ c \in {"_", ".", "-", "~", "/"} THEN <<c>>
    ELSE PercentEncoded(Utf8Bytes(c))

RECURSIVE Quote(_)
Quote(s) == IF s = <<>> THEN <<>> ELSE QuoteChar(Head(s)) \o Quote(Tail(s))

\* str.replace(a, b) for single characters
ReplaceChar(s, a, b) == [i \in 1..Len(s) |-> IF s[i] = a THEN b ELSE s[i]]

_norm_term(term) == Quote(ReplaceChar(Lower(Strip(term)), " ", "_"))

\* s.rsplit(sep, 1)[-1] and s.split(sep)[-1]: what follows the last sep
RECURSIVE LastSegment(_, _)
LastSegment(s, sep) ==
    IF \E i \in 1..Len(s) : s[i] = sep
    THEN LastSegment(SubSeq(s, (CHOOSE i \in 1..Len(s) : s[i] = sep) + 1, Len(s)), sep)
    ELSE s

_label_of(node) == Or(node.label, LastSegment(node.id, "/"))

_rel_of(rid) == IF rid # <<>> THEN LastSegment(rid, "/") ELSE <<>>

\* the response of a source for a key it has no entry for: unavailable
SourceDown == [ok |-> FALSE, body |-> "object", edges |-> <<>>]

ConceptResponse(src, term) == IF term \in DOMAIN src THEN src[term] ELSE SourceDown

\* lines 67-87: weight filter and per-call dedup, weights kept
RECURSIVE ConceptCollect(_, _, _)
ConceptCollect(raw, min_weight, seen) ==
    IF raw = <<>> THEN <<>>
    ELSE LET edge == Head(raw)
             src == _label_of(edge.start)
             tgt == _label_of(edge.end)
             rel == _rel_of(edge.rel)
             sig == <<Lower(src), rel, Lower(tgt)>>
         IN  IF edge.weight < min_weight \/ sig \in seen
             THEN ConceptCollect(Tail(raw), min_weight, seen)
             ELSE <<[source |-> src, relation |-> rel, target |-> tgt,
                     weight |-> edge.weight]>>
                  \o ConceptCollect(Tail(raw), min_weight, seen \cup {sig})

\* list.sort(key=weight, reverse=True): stable, equal weights keep their order
RECURSIVE InsertByWeight(_, _)
InsertByWeight(t, sorted) ==
    IF sorted = <<>> THEN <<t>>
    ELSE IF Head(sorted).weight >= t.weight
         THEN <<Head(sorted)>> \o InsertByWeight(t, Tail(sorted))
         ELSE <<t>> \o sorted

RECURSIVE SortByWeight(_)
SortByWeight(ts) ==
    IF ts = <<>> THEN <<>>
    ELSE InsertByWeight(ts[Len(ts)], SortByWeight(SubSeq(ts, 1, Len(ts) - 1)))

\* ts[:n], n >= 0
Truncate(ts, n) == SubSeq(ts, 1, IF Len(ts) < n THEN Len(ts) ELSE n)

\* mutant of Limited: max_num is not applied
Limited_never(ts, max_num) == ts

\* lines 93-94: max_num is <<>> for None and <<n>> for the number n
Limited(ts, max_num) == IF max_num = <<>> THEN ts ELSE Truncate(ts, max_num[1])

\* t.pop("weight")
DropWeight(ts) ==
    [i \in 1..Len(ts) |->
        [source |-> ts[i].source, relation |-> ts[i].relation, target |-> ts[i].target]]

\* lines 67-76, which no try encloses: the loop raises on an edge whose weight
\* is null (w < min_weight) and, once the weight has passed, on one whose rel,
\* start or end is null (.get on None)
RECURSIVE EdgeRaises(_, _)
EdgeRaises(raw, min_weight) ==
    IF raw = <<>> THEN FALSE
    ELSE LET edge == Head(raw) IN
         IF edge.null = "weight" THEN TRUE
         ELSE IF edge.weight < min_weight THEN EdgeRaises(Tail(raw), min_weight)
         ELSE IF edge.null \in {"rel", "start", "end"} THEN TRUE
         ELSE EdgeRaises(Tail(raw), min_weight)

\* whether the call raises: the JSON arrived (lines 57-62 return [] otherwise)
\* and data.get, the iteration of data["edges"] or an edge raises
ConceptRaises(resp, min_weight) ==
    /\ resp.ok
    /\ resp.body # "object" \/ EdgeRaises(resp.edges, min_weight)

\* the call's outcome: [raised, triples]
fetch_conceptnet_triples(src, keyword, min_weight, max_num) ==
    LET resp == ConceptResponse(src, _norm_term(keyword)) IN
    IF ~resp.ok THEN [raised |-> FALSE, triples |-> <<>>]
    ELSE IF ConceptRaises(resp, min_weight) THEN [raised |-> TRUE, triples |-> <<>>]
    ELSE [raised |-> FALSE,
          triples |-> DropWeight(Limited(SortByWeight(
                          ConceptCollect(resp.edges, min_weight, {})), max_num))]

(***************************************************************************)
(* Entity adapter: utils/entity_graph_search.py.                           *)
(* The encyclopedic source is [lookup, ask, sparql]:                       *)
(*   lookup: keyword -> [ok, docs], a doc being [resource, uri], each the  *)
(*           list of strings stored under that key (empty when absent);    *)
(*   ask:    URI -> [ok, boolean];                                         *)
(*   sparql: URI -> [ok, bindings], a binding being                        *)
(*           [p, pLabel, o, otype, oLabel] (a label <<>> when unbound).    *)
(* A key with no entry is an unavailable endpoint.                         *)
(***************************************************************************)
S_http == <<"h","t","t","p">>
S_dbr == <<"h","t","t","p",":","/","/","d","b","p","e","d","i","a",".","o","r","g",
           "/","r","e","s","o","u","r","c","e","/">>
S_dbo == <<"h","t","t","p",":","/","/","d","b","p","e","d","i","a",".","o","r","g",
           "/","o","n","t","o","l","o","g","y","/">>
S_dbo_wikiPage == <<"d","b","p","e","d","i","a",".","o","r","g","/","o","n","t","o",
                    "l","o","g","y","/","w","i","k","i","P","a","g","e">>
WIKI_REL_LOCAL_PREFIX == <<"w","i","k","i","P","a","g","e">>
\* the entries of the blocklist that do not begin with WIKI_REL_LOCAL_PREFIX (the
\* twelve that do are excluded by the prefix test of _is_wiki_relation as well)
WIKI_REL_LOCAL_BLOCKLIST ==
    { <<"w","i","k","i","d","a","t","a","S","p","l","i","t","I","r","i">>,
      <<"2","2","-","r","d","f","-","s","y","n","t","a","x","-","n","s","#","t","y","p","e">>,
      <<"r","d","f","-","s","c","h","e","m","a","#","s","e","e","A","l","s","o">> }

\* sub in s
Contains(s, sub) ==
    \E i \in 0..(Len(s) - Len(sub)) : SubSeq(s, i + 1, i + Len(sub)) = sub

\* the first character of str.capitalize() on a character of [A-Za-z0-9],
\* the characters a token holds
UpperChar(c) ==
    CASE Occurs(LowerChars, c) -> UpperChars[IndexOf(LowerChars, c)]
      [] IsAlnum(c) -> c

\* str.capitalize()
Capitalize(t) ==
    [i \in 1..Len(t) |-> IF i = 1 THEN UpperChar(t[i]) ELSE LowerChar(t[i])]

\* the length of the leading run of [A-Za-z0-9]
RECURSIVE AlnumRun(_)
AlnumRun(s) == IF s # <<>> /\ IsAlnum(Head(s)) THEN 1 + AlnumRun(Tail(s)) ELSE 0

\* re.findall(r"[A-Za-z0-9]+", s)
RECURSIVE AlnumTokens(_)
AlnumTokens(s) ==
    IF s = <<>> THEN <<>>
    ELSE IF IsAlnum(Head(s))
         THEN <<SubSeq(s, 1, AlnumRun(s))>>
              \o AlnumTokens(SubSeq(s, AlnumRun(s) + 1, Len(s)))
         ELSE AlnumTokens(Tail(s))

\* "_".join(t.capitalize() for t in tokens)
RECURSIVE JoinCapitalized(_)
JoinCapitalized(tokens) ==
    IF tokens = <<>> THEN <<>>
    ELSE IF Len(tokens) = 1 THEN Capitalize(Head(tokens))
    ELSE Capitalize(Head(tokens)) \o <<"_">> \o JoinCapitalized(Tail(tokens))

_normalize_keyword_for_dbr(keyword) ==
    LET tokenized == AlnumTokens(Lower(Strip(keyword))) IN
    IF tokenized # <<>> THEN JoinCapitalized(tokenized) ELSE Strip(keyword)

\* uri.rstrip("/")
RECURSIVE RStripSlash(_)
RStripSlash(s) ==
    IF s # <<>> /\ s[Len(s)] = "/" THEN RStripSlash(SubSeq(s, 1, Len(s) - 1)) ELSE s

_localname(uri) == IF uri = <<>> THEN <<>> ELSE LastSegment(RStripSlash(uri), "/")

_is_wiki_relation(p_uri, rel_local) ==
    IF rel_local = <<>> THEN FALSE
    ELSE \/ rel_local \in WIKI_REL_LOCAL_BLOCKLIST
         \/ StartsWith(rel_local, WIKI_REL_LOCAL_PREFIX)
         \/ Contains(p_uri, S_dbo_wikiPage)

\* a response of the encyclopedic source is [ok, body, docs, boolean, bindings]:
\* ok = FALSE for a transport failure, a non-success status or invalid JSON;
\* body the shape of the JSON received: "object" (the expected one), "array"
\* (JSON that is not an object), "results_null" {"results": null} or
\* "bindings_null" {"results": {"bindings": null}}
EndpointDown ==
    [ok |-> FALSE, body |-> "object", docs |-> <<>>, boolean |-> FALSE, bindings |-> <<>>]

EndpointResponse(f, key) == IF key \in DOMAIN f THEN f[key] ELSE EndpointDown

\* lines 96-104: the URI a lookup doc carries, None (<<>>) when it has none
DocUri(r) ==
    IF r.resource # <<>> THEN r.resource[1]
    ELSE IF r.uri # <<>> THEN r.uri[1]
    ELSE <<>>

\* lines 95-108: the first doc whose URI is well formed
RECURSIVE FirstLookupUri(_)
FirstLookupUri(docs) ==
    IF docs = <<>> THEN <<>>
    ELSE LET uri == DocUri(Head(docs)) IN
         IF uri # <<>> /\ StartsWith(uri, S_http) THEN uri
         ELSE FirstLookupUri(Tail(docs))

\* the URI the lookup phase of resolve_dbpedia_entity returns, <<>> when none
LookupUri(src, keyword) ==
    LET resp == EndpointResponse(src.lookup, keyword) IN
    IF resp.ok /\ resp.body = "object" THEN FirstLookupUri(resp.docs) ELSE <<>>

\* the fallback candidate of resolve_dbpedia_entity
FallbackCandidate(keyword) == S_dbr \o Quote(_normalize_keyword_for_dbr(keyword))

\* lines 128-149: everything is inside the try, res.get on a JSON body that
\* is not an object included
_check_resource_exists(src, uri) ==
    LET resp == EndpointResponse(src.ask, uri) IN
    resp.ok /\ resp.body = "object" /\ resp.boolean

AskIssued_always(src, keyword) == TRUE

\* whether resolve_dbpedia_entity issues the ASK query
AskIssued(src, keyword) == LookupUri(src, keyword) = <<>>

\* the resolved URI, None (<<>>) when resolution fails
resolve_dbpedia_entity(src, keyword) ==
    IF LookupUri(src, keyword) # <<>> THEN LookupUri(src, keyword)
    ELSE IF _check_resource_exists(src, FallbackCandidate(keyword))
         THEN FallbackCandidate(keyword)
         ELSE <<>>

\* lines 249-253 of fetch_dbpedia_triples
RelationText(b) == Or(b.pLabel, _localname(b.p))

TargetText(b) ==
    IF b.otype = "uri"
    THEN ReplaceChar(Or(b.oLabel, _localname(b.o)), "_", " ")
    ELSE Or(b.oLabel, b.o)

\* lines 229-273: the loop over the bindings; acc is `triples`, seen is `seen`
RECURSIVE EntityCollect(_, _, _, _, _)
EntityCollect(bindings, source_label, max_num, acc, seen) ==
    IF bindings = <<>> THEN acc
    ELSE LET b == Head(bindings)
             sig == <<Lower(source_label), RelationText(b), Lower(TargetText(b))>>
         IN  IF _is_wiki_relation(b.p, _localname(b.p)) \/ sig \in seen
             THEN EntityCollect(Tail(bindings), source_label, max_num, acc, seen)
             ELSE LET acc2 == Append(acc, [source |-> source_label,
                                           relation |-> RelationText(b),
                                           target |-> TargetText(b)])
                  IN  IF Len(acc2) >= max_num THEN acc2
                      ELSE EntityCollect(Tail(bindings), source_label, max_num,
                                         acc2, seen \cup {sig})

\* whether fetch_dbpedia_triples issues the outgoing-relations query
SparqlIssued(src, keyword) == resolve_dbpedia_entity(src, keyword) # <<>>

\* whether the call raises: lines 226 and 229 are outside any try, so a SELECT
\* answer that is JSON but not {"results": {"bindings": [...]}} raises
\* (data.get on a list, .get on None, iteration of None)
SelectRaises(src, keyword) ==
    LET uri == resolve_dbpedia_entity(src, keyword)
        resp == EndpointResponse(src.sparql, uri)
    IN  uri # <<>> /\ resp.ok /\ resp.body # "object"

\* the call's outcome: [raised, triples]
fetch_dbpedia_triples(src, keyword, max_num) ==
    LET uri == resolve_dbpedia_entity(src, keyword) IN
    IF uri = <<>> THEN [raised |-> FALSE, triples |-> <<>>]
    ELSE LET resp == EndpointResponse(src.sparql, uri) IN
         IF ~resp.ok THEN [raised |-> FALSE, triples |-> <<>>]
         ELSE IF SelectRaises(src, keyword) THEN [raised |-> TRUE, triples |-> <<>>]
         ELSE [raised |-> FALSE,
               triples |-> EntityCollect(resp.bindings,
                                         ReplaceChar(_localname(uri), "_", " "),
                                         max_num, <<>>, {})]

(***************************************************************************)
(* Term-Definition adapter: fusion_graph_builder/term_definition_graph.py. *)
(* A reply of the model is [raises, shape, obj]: raises when the call      *)
(* itself fails; otherwise the text, by what json.loads and the fence      *)
(* pattern make of it:                                                     *)
(*   "object"          a JSON object, obj                                  *)
(*   "array"           a JSON array whose first element is the object obj  *)
(*   "fenced_object"   not JSON; holds a ```json fence around obj          *)
(*   "fenced_array"    not JSON; holds a fence around an array, first obj  *)
(*   "fenced_invalid"  not JSON; holds a fence whose content is not JSON   *)
(*   "plain"           not JSON and no fence                               *)
(* obj is [source, relation, target], a missing key being <<>>.            *)
(***************************************************************************)
S_IsA == <<"I","s","A">>

\* _from_dict: None is [found |-> FALSE]
FromDict(d) ==
    LET src == _norm(d.source)
        rel == _norm(d.relation)
        tgt == _norm(d.target)
    IN  IF src # <<>> /\ tgt # <<>> /\ rel # <<>>
        THEN [found |-> TRUE,
              triple |-> [source |-> src, relation |-> S_IsA, target |-> tgt]]
        ELSE [found |-> FALSE,
              triple |-> [source |-> <<>>, relation |-> <<>>, target |-> <<>>]]

_coerce_single_triple(reply, keyword) ==
    IF reply.shape \in {"object", "array", "fenced_object", "fenced_array"}
       /\ FromDict(reply.obj).found
    THEN FromDict(reply.obj).triple
    ELSE [source |-> _norm(keyword), relation |-> S_IsA, target |-> <<>>]

\* mutant of PinnedTriple: the parsed triple is returned as it is
PinnedTriple_asParsed(triple, keyword) == triple

\* lines 117-120: relation and source are overwritten
PinnedTriple(triple, keyword) ==
    [source |-> keyword, relation |-> S_IsA, target |-> triple.target]

\* the call's outcome: [raised, triples]
build_term_definition_triples(reply, keyword) ==
    IF reply.raises THEN [raised |-> TRUE, triples |-> <<>>]
    ELSE [raised |-> FALSE,
          triples |-> <<PinnedTriple(_coerce_single_triple(reply, keyword), keyword)>>]

(***************************************************************************)
(* Relevance filter.  A reply of the model is [raises, shape, keep]:       *)
(*   "object"          a JSON object whose "keep" is the list keep         *)
(*                     (<<>> when the key is absent or null)               *)
(*   "array"           valid JSON that is not an object (a list)           *)
(*   "fenced_object"   not JSON; holds a ```json fence around the object   *)
(*   "fenced_invalid"  not JSON; holds a fence whose content is not JSON   *)
(*   "plain"           not JSON and no fence                               *)
(*   "keep_number"     a JSON object whose "keep" is a non-zero number     *)
(***************************************************************************)
\* cand_map[k] of line 163: the last candidate whose lower case is k
CandMap(cands, k) ==
    cands[CHOOSE i \in 1..Len(cands) :
            /\ Lower(cands[i]) = k
            /\ \A j \in (i + 1)..Len(cands) : Lower(cands[j]) # k]

\* lines 164-168
RECURSIVE KeepMatches(_, _, _)
KeepMatches(keep, cands, seen) ==
    IF keep = <<>> THEN <<>>
    ELSE LET k == Lower(_norm(Head(keep))) IN
         IF k \in {Lower(c) : c \in Range(cands)} /\ k \notin seen
         THEN <<CandMap(cands, k)>> \o KeepMatches(Tail(keep), cands, seen \cup {k})
         ELSE KeepMatches(Tail(keep), cands, seen)

\* whether lines 141-165 raise: the call fails, the fence holds invalid JSON
\* (json.loads in the except branch), the JSON is no object (data.get), or
\* its keep cannot be iterated (for t in keep)
FilterRaises(reply) ==
    reply.raises \/ reply.shape \in {"fenced_invalid", "array", "keep_number"}

\* the call's outcome: [raised, out]
_pick_hard_agents_via_gpt(cands, reply) ==
    IF cands = <<>> THEN [raised |-> FALSE, out |-> <<>>]
    ELSE IF FilterRaises(reply) THEN [raised |-> TRUE, out |-> <<>>]
    ELSE [raised |-> FALSE,
          out |-> KeepMatches(IF reply.shape = "plain" THEN <<>> ELSE reply.keep,
                              cands, {})]

(***************************************************************************)
(* _expand_once, lines 242-250: the next frontier.                         *)
(***************************************************************************)
RECURSIVE FrontierFrom(_, _, _)
FrontierFrom(queue, current_set, seen) ==
    IF queue = <<>> THEN <<>>
    ELSE LET xn == _norm(Head(queue))
             k == Lower(xn)
         IN  IF xn = <<>> \/ k \in current_set \/ k \in seen
             THEN FrontierFrom(Tail(queue), current_set, seen)
             ELSE <<xn>> \o FrontierFrom(Tail(queue), current_set, seen \cup {k})

\* mutant of NextFrontier: the round's own agents are not excluded
NextFrontier_noExclusion(queue, agents) == FrontierFrom(queue, {}, {})

NextFrontier(queue, agents) == FrontierFrom(queue, {Lower(a) : a \in Range(agents)}, {})

\* {**t, "source_graph": g} for every t
Tagged(tris, g) ==
    [i \in 1..Len(tris) |->
        [source |-> tris[i].source, relation |-> tris[i].relation,
         target |-> tris[i].target, source_graph |-> g]]

\* t["target"] for every t
Targets(tris) == [i \in 1..Len(tris) |-> tris[i].target]

(***************************************************************************)
(* State.                                                                  *)
(***************************************************************************)
VARIABLES
    \* arguments of build_fusion_graph
    eventic_edges, rounds, use_concept_graph, use_entity_graph,
    use_term_definition_graph, include_tdg_edges,
    \* the external collaborators: the two knowledge sources and the replies of
    \* the model to the definition prompt and to the filter prompt
    conceptnet, dbpedia, tdg_model, filter_model,
    \* build_fusion_graph: position, locals, return value
    pc, round_idx, final_edges, agents_queue, result,
    \* _expand_once: parameter, locals, return value
    agent_list, hard_agents, agent_idx, edges, next_queue, step_edges, new_queue,
    \* observation: the external calls of the current round, in order, and one
    \* record per returned round
    calls, history,
    \* the deduplicator applied on its own: input, _dedup_edges(E),
    \* _dedup_edges(E ++ E), _dedup_edges(_dedup_edges(E))
    d_in, d_once, d_twice, d_again,
    \* the relevance filter applied on its own: candidates, the model's reply,
    \* the outcome of _pick_hard_agents_via_gpt, the round's hard_agents
    f_cands, f_reply, f_out, f_hard,
    \* the definition adapter applied on its own: keyword, the model's reply,
    \* the outcome of build_term_definition_triples
    t_keyword, t_reply, t_out,
    \* the concept adapter applied on its own: the source's response, the
    \* arguments min_weight and max_num, the result of fetch_conceptnet_triples
    c_resp, c_min_weight, c_max_num, c_out,
    \* the entity adapter applied on its own: the source, the arguments keyword
    \* and max_num, the result of fetch_dbpedia_triples
    e_src, e_keyword, e_max_num, e_log, e_out

argVars == <<eventic_edges, rounds, use_concept_graph, use_entity_graph,
             use_term_definition_graph, include_tdg_edges>>
envVars == <<conceptnet, dbpedia, tdg_model, filter_model>>
buildVars == <<round_idx, final_edges, agents_queue, result>>
expandVars == <<agent_list, hard_agents, agent_idx, edges, next_queue,
                step_edges, new_queue>>
obsVars == <<calls, history>>
dedupVars == <<d_in, d_once, d_twice, d_again>>
filterVars == <<f_cands, f_reply, f_out, f_hard>>
tdgVars == <<t_keyword, t_reply, t_out>>
conceptVars == <<c_resp, c_min_weight, c_max_num, c_out>>
entityVars == <<e_src, e_keyword, e_max_num, e_log, e_out>>
adapterVars == <<conceptVars, entityVars>>
unitVars == <<dedupVars, filterVars, tdgVars, adapterVars>>
vars == <<argVars, envVars, pc, buildVars, expandVars, obsVars, unitVars>>

(***************************************************************************)
(* Inputs of the model.                                                    *)
(***************************************************************************)
s_A == <<"A">>
s_a == <<"a">>
s_B == <<"B">>
s_b == <<"b">>
s_c == <<"c">>
s_m == <<"m">>
s_x == <<"x">>
\* a Latin-1 letter in its two cases
s_Eacute == <<"É">>
s_eacute == <<"é">>

\* event records
Ev_A == << <<K_Agent, s_A>>, <<K_Deontic, s_m>>, <<K_Action, s_x>> >>
Ev_a == << <<K_agent, <<" ","a"," ">> >>, <<K_deontic, <<"M">> >>,
           <<K_action, <<"x","\r","\n","y">> >> >>
Ev_B_noAction == << <<K_Agent1, <<"B"," ">> >>, <<K_Deontic, s_m>> >>
EventRecords == {Ev_A, Ev_a, Ev_B_noAction}

\* responses of the commonsense source
Node(label) == [label |-> label, id |-> <<>>]
NodeId(id) == [label |-> <<>>, id |-> id]
R_IsA == <<"/","r","/","I","s","A">>
R_RelatedTo == <<"/","r","/","R","e","l","a","t","e","d","T","o">>
CW_down == <<>>
CW_cycle ==
    (s_a :> [ok |-> TRUE, body |-> "object", edges |-> <<
        [null |-> "", weight |-> 5, rel |-> R_IsA, start |-> Node(s_a),
         end |-> NodeId(<<"/","c","/","e","n","/","b">>)],
        [null |-> "", weight |-> 6, rel |-> R_IsA, start |-> Node(s_a), end |-> Node(s_A)],
        [null |-> "", weight |-> 1, rel |-> R_IsA, start |-> Node(s_a), end |-> Node(s_c)] >>])
    @@ (s_b :> [ok |-> TRUE, body |-> "object", edges |-> <<
        [null |-> "", weight |-> 4, rel |-> R_RelatedTo, start |-> Node(s_b), end |-> Node(s_A)] >>])
CW_odd ==
    (s_a :> [ok |-> TRUE, body |-> "object", edges |-> <<
        [null |-> "", weight |-> 9, rel |-> <<>>, start |-> Node(s_a), end |-> Node(<<"d">>)],
        [null |-> "", weight |-> 4, rel |-> R_IsA, start |-> Node(s_a), end |-> Node(<<" ","C","\t">>)],
        [null |-> "", weight |-> 4, rel |-> R_IsA, start |-> Node(s_a), end |-> Node(s_b)] >>])
    @@ (s_b :> [ok |-> TRUE, body |-> "object", edges |-> <<
        [null |-> "", weight |-> 5, rel |-> R_IsA, start |-> Node(s_B), end |-> Node(s_a)] >>])
    @@ (s_c :> [ok |-> FALSE, body |-> "object", edges |-> <<>>])
    @@ (<<"d">> :> [ok |-> TRUE, body |-> "array", edges |-> <<>>])
ConceptWorlds == {CW_down, CW_cycle, CW_odd}

\* responses of the encyclopedic source
Binding(p, pLabel, o, otype, oLabel) ==
    [p |-> p, pLabel |-> pLabel, o |-> o, otype |-> otype, oLabel |-> oLabel]
\* an answer whose JSON is of one of the unexpected shapes
Misshapen(body) ==
    [ok |-> TRUE, body |-> body, docs |-> <<>>, boolean |-> FALSE, bindings |-> <<>>]
EW_down == [lookup |-> <<>>, ask |-> <<>>, sparql |-> <<>>]
EW_live ==
    [lookup |->
        (s_A :> [ok |-> TRUE, body |-> "object", docs |-> << [resource |-> <<S_dbr \o s_A>>, uri |-> <<>>] >>,
                 boolean |-> FALSE, bindings |-> <<>>])
        @@ (s_B :> [ok |-> TRUE, body |-> "object", docs |-> << [resource |-> <<>>, uri |-> <<s_x>>] >>,
                    boolean |-> FALSE, bindings |-> <<>>]),
     ask |->
        (S_dbr \o s_B :> [ok |-> TRUE, body |-> "object", docs |-> <<>>, boolean |-> TRUE, bindings |-> <<>>])
        @@ (S_dbr \o <<"C">> :>
               [ok |-> TRUE, body |-> "object", docs |-> <<>>, boolean |-> TRUE, bindings |-> <<>>]),
     sparql |->
        (S_dbr \o s_A :> [ok |-> TRUE, body |-> "object", docs |-> <<>>, boolean |-> FALSE, bindings |-> <<
            Binding(S_dbo \o <<"w","i","k","i","P","a","g","e","I","D">>, <<>>,
                    <<"1">>, "literal", <<>>),
            Binding(S_dbo \o S_IsA, <<>>, s_a, "literal", <<>>),
            Binding(S_dbo \o <<"r">>, <<"R">>, S_dbr \o <<"b","_","c">>, "uri", s_b),
            Binding(S_dbo \o <<"r">>, <<>>, S_dbr \o <<"D","_","e">>, "uri", <<>>),
            Binding(S_dbo \o <<"r">>, <<>>, s_c, "literal", <<>>) >>])
        @@ (S_dbr \o s_B :> [ok |-> TRUE, body |-> "object", docs |-> <<>>, boolean |-> FALSE, bindings |-> <<
            Binding(S_dbo \o <<"r">>, <<>>, S_dbr \o s_A, "uri", <<>>) >>])
        @@ (S_dbr \o <<"C">> :> Misshapen("bindings_null"))]
EntityWorlds == {EW_down, EW_live}

\* replies of the model to the definition prompt
Obj(src, rel, tgt) == [source |-> src, relation |-> rel, target |-> tgt]
TR_raise == [raises |-> TRUE, shape |-> "plain", obj |-> Obj(<<>>, <<>>, <<>>)]
TR_plain == [raises |-> FALSE, shape |-> "plain", obj |-> Obj(<<>>, <<>>, <<>>)]
TR_define == [raises |-> FALSE, shape |-> "object",
              obj |-> Obj(s_x, <<"r">>, <<" ","d","\t"," ","e">>)]
TdgReplies == {TR_raise, TR_plain, TR_define}

\* replies of the model to the filter prompt
FR_raise == [raises |-> TRUE, shape |-> "plain", keep |-> <<>>]
FR_plain == [raises |-> FALSE, shape |-> "plain", keep |-> <<>>]
FR_some == [raises |-> FALSE, shape |-> "object", keep |-> << <<" ","A">>, s_a, s_c >>]
FilterReplies == {FR_raise, FR_plain, FR_some}

\* (use_concept_graph, source): a disabled source is never consulted
ConceptSettings == {<<FALSE, CW_down>>} \cup {<<TRUE, w>> : w \in ConceptWorlds}
EntitySettings == {<<FALSE, EW_down>>} \cup {<<TRUE, w>> : w \in EntityWorlds}
\* (use_term_definition_graph, include_tdg_edges, reply)
TdgSettings ==
    {<<FALSE, FALSE, TR_raise>>, <<TRUE, FALSE, TR_define>>}
    \cup {<<TRUE, TRUE, r>> : r \in TdgReplies}

Max(a, b) == IF a >= b THEN a ELSE b

(***************************************************************************)
(* Init: build_fusion_graph is about to be called.                         *)
(***************************************************************************)
\* the filter and the definition adapter are not exercised on their own
\* the two knowledge adapters are not exercised on their own
ConceptIdle ==
    c_resp = SourceDown /\ c_min_weight = 0 /\ c_max_num = <<>> /\ c_out = <<>>

EntityIdle ==
    e_src = EW_down /\ e_keyword = <<>> /\ e_max_num = 0 /\ e_log = <<>> /\ e_out = <<>>

AdapterIdle == ConceptIdle /\ EntityIdle

UnitIdle ==
    /\ f_cands = <<>> /\ f_reply = FR_plain /\ f_out = <<>> /\ f_hard = <<>>
    /\ t_keyword = <<>> /\ t_reply = TR_plain /\ t_out = <<>>
    /\ AdapterIdle

Idle ==
    /\ round_idx = 0 /\ final_edges = <<>> /\ agents_queue = <<>> /\ result = <<>>
    /\ agent_list = <<>> /\ hard_agents = <<>> /\ agent_idx = 0
    /\ edges = <<>> /\ next_queue = <<>> /\ step_edges = <<>> /\ new_queue = <<>>
    /\ calls = <<>> /\ history = <<>>

Init ==
    /\ eventic_edges \in SeqsUpTo(EventRecords, MaxEvents)
    /\ rounds \in 0..MaxRounds
    /\ \E c \in ConceptSettings : use_concept_graph = c[1] /\ conceptnet = c[2]
    /\ \E e \in EntitySettings : use_entity_graph = e[1] /\ dbpedia = e[2]
    /\ \E t \in TdgSettings :
          use_term_definition_graph = t[1] /\ include_tdg_edges = t[2] /\ tdg_model = t[3]
    /\ filter_model \in FilterReplies
    /\ pc = "start"
    /\ Idle
    /\ d_in = <<>> /\ d_once = <<>> /\ d_twice = <<>> /\ d_again = <<>>
    /\ UnitIdle

(***************************************************************************)
(* build_fusion_graph.                                                     *)
(***************************************************************************)
\* lines 288-291
Seed ==
    /\ pc = "start"
    /\ final_edges' = _eventic_to_triples(eventic_edges)
    /\ agents_queue' = _extract_agents_from_eventic(eventic_edges)
    /\ round_idx' = 0
    /\ pc' = "loop"
    /\ UNCHANGED <<argVars, envVars, result, expandVars, obsVars, unitVars>>

\* mutant of RoundsLeft: the loop bound off by one
RoundsLeft_offByOne == round_idx <= Max(0, rounds)

\* line 295: the loop goes on while round_idx < max(0, int(rounds))
RoundsLeft == round_idx < Max(0, rounds)

\* mutant of FrontierEmpty: the early exit of lines 296-299 is never taken
FrontierEmpty_ignored == FALSE

\* line 296: if not agents_queue
FrontierEmpty == agents_queue = <<>>

\* lines 295-303: one more round, _expand_once is entered (lines 198-199)
EnterRound ==
    /\ pc = "loop"
    /\ RoundsLeft
    /\ ~FrontierEmpty
    /\ agent_list' = agents_queue
    /\ edges' = <<>>
    /\ next_queue' = <<>>
    /\ hard_agents' = <<>>
    /\ agent_idx' = 0
    /\ calls' = <<>>
    /\ pc' = "filter"
    /\ UNCHANGED <<argVars, envVars, buildVars, step_edges, new_queue, history, unitVars>>

\* lines 295-299: the round budget is spent, or the queue is empty (break)
LeaveLoop ==
    /\ pc = "loop"
    /\ ~RoundsLeft \/ FrontierEmpty
    /\ pc' = "final"
    /\ UNCHANGED <<argVars, envVars, buildVars, expandVars, obsVars, unitVars>>

\* lines 319-322
Finish ==
    /\ pc = "final"
    /\ result' = _dedup_edges(final_edges)
    /\ pc' = "done"
    /\ UNCHANGED <<argVars, envVars, round_idx, final_edges, agents_queue,
                   expandVars, obsVars, unitVars>>

(***************************************************************************)
(* _expand_once.                                                           *)
(***************************************************************************)
\* mutant of HardAgents: no fallback
HardAgents_noFallback(picked, agents) == picked

\* lines 203-206: the fallback when the filter picked nothing
HardAgents(picked, agents) == IF picked = <<>> THEN agents ELSE picked

\* lines 201-208: the filter, and the fallback to all agents; an exception of
\* the filter is caught nowhere up to the caller of build_fusion_graph
Filter ==
    /\ pc = "filter"
    /\ LET picked == _pick_hard_agents_via_gpt(agent_list, filter_model) IN
         /\ calls' = Append(calls, <<"filter", <<>>, picked.out>>)
         /\ IF picked.raised
            THEN /\ pc' = "raised"
                 /\ UNCHANGED <<hard_agents, agent_idx>>
            ELSE /\ hard_agents' = HardAgents(picked.out, agent_list)
                 /\ agent_idx' = 1
                 /\ pc' = (IF HardAgents(picked.out, agent_list) = <<>>
                           THEN "assemble" ELSE "concept")
    /\ UNCHANGED <<argVars, envVars, buildVars, agent_list, edges, next_queue,
                   step_edges, new_queue, history, unitVars>>

\* mutant of EntityEnabled: the ablation flag is not consulted
EntityEnabled_ignored == TRUE

\* lines 213, 223, 233: whether the adapter is enabled
ConceptEnabled == use_concept_graph
EntityEnabled == use_entity_graph
TermDefinitionEnabled == use_term_definition_graph

\* lines 213-220; an exception of fetch_conceptnet_triples is caught nowhere
Concept ==
    /\ pc = "concept"
    /\ LET agent == hard_agents[agent_idx]
           concept == fetch_conceptnet_triples(conceptnet, agent,
                                               CONCEPT_MIN_WEIGHT, <<CONCEPT_MAX>>)
           c_tris == concept.triples
       IN  IF ~ConceptEnabled
           THEN /\ UNCHANGED <<edges, next_queue, calls>>
                /\ pc' = "entity"
           ELSE /\ calls' = Append(calls, <<"concept", agent, c_tris>>)
                /\ IF concept.raised
                   THEN /\ pc' = "raised"
                        /\ UNCHANGED <<edges, next_queue>>
                   ELSE /\ edges' = edges \o Tagged(c_tris, "concept")
                        /\ next_queue' = next_queue \o Targets(c_tris)
                        /\ pc' = "entity"
    /\ UNCHANGED <<argVars, envVars, buildVars, agent_list, hard_agents, agent_idx,
                   step_edges, new_queue, history, unitVars>>

\* lines 223-230; an exception of fetch_dbpedia_triples is caught nowhere
Entity ==
    /\ pc = "entity"
    /\ LET agent == hard_agents[agent_idx]
           entity == fetch_dbpedia_triples(dbpedia, agent, ENTITY_MAX)
           e_tris == entity.triples
       IN  IF ~EntityEnabled
           THEN /\ UNCHANGED <<edges, next_queue, calls>>
                /\ pc' = "tdg"
           ELSE /\ calls' = Append(calls, <<"entity", agent, e_tris>>)
                /\ IF entity.raised
                   THEN /\ pc' = "raised"
                        /\ UNCHANGED <<edges, next_queue>>
                   ELSE /\ edges' = edges \o Tagged(e_tris, "entity")
                        /\ next_queue' = next_queue \o Targets(e_tris)
                        /\ pc' = "tdg"
    /\ UNCHANGED <<argVars, envVars, buildVars, agent_list, hard_agents, agent_idx,
                   step_edges, new_queue, history, unitVars>>

\* mutant of IncludeDefinitions: the flag is not consulted
IncludeDefinitions_always == TRUE

\* line 237: if include_tdg_edges
IncludeDefinitions == include_tdg_edges

\* mutant of DefinitionTargets: the targets of definitions are queued
DefinitionTargets_queued(tris) == Targets(tris)

\* lines 233-240: what a definition result adds to next_queue, namely nothing
\* (only the concept and entity branches extend it, lines 219 and 229)
DefinitionTargets(tris) == <<>>

\* lines 233-240, and the loop of line 208 going to its next agent; an exception
\* of build_term_definition_triples is caught nowhere
TermDefinition ==
    /\ pc = "tdg"
    /\ LET agent == hard_agents[agent_idx]
           tdg == build_term_definition_triples(tdg_model, agent)
           more == agent_idx < Len(hard_agents)
       IN  IF ~TermDefinitionEnabled
           THEN /\ UNCHANGED <<edges, next_queue, calls>>
                /\ agent_idx' = (IF more THEN agent_idx + 1 ELSE agent_idx)
                /\ pc' = (IF more THEN "concept" ELSE "assemble")
           ELSE /\ calls' = Append(calls, <<"term_definition", agent, tdg.triples>>)
                /\ IF tdg.raised
                   THEN /\ pc' = "raised"
                        /\ UNCHANGED <<edges, next_queue, agent_idx>>
                   ELSE /\ edges' = (IF IncludeDefinitions
                                     THEN edges \o Tagged(tdg.triples, "term_definition")
                                     ELSE edges)
                        /\ next_queue' = next_queue \o DefinitionTargets(tdg.triples)
                        /\ agent_idx' = (IF more THEN agent_idx + 1 ELSE agent_idx)
                        /\ pc' = (IF more THEN "concept" ELSE "assemble")
    /\ UNCHANGED <<argVars, envVars, buildVars, agent_list, hard_agents,
                   step_edges, new_queue, history, unitVars>>

\* lines 242-255: the next frontier, the deduplicated edges, return
ExpandReturn ==
    /\ pc = "assemble"
    /\ new_queue' = NextFrontier(next_queue, agent_list)
    /\ step_edges' = _dedup_edges(edges)
    /\ history' = Append(history,
                    [agents |-> agent_list, hard |-> hard_agents,
                     new_edges |-> _dedup_edges(edges),
                     next_frontier |-> NextFrontier(next_queue, agent_list),
                     calls |-> calls])
    /\ pc' = "accumulate"
    /\ UNCHANGED <<argVars, envVars, buildVars, agent_list, hard_agents, agent_idx,
                   edges, next_queue, calls, unitVars>>

\* mutant of Accumulated: the round's edges replace the accumulated ones
Accumulated_overwrite(final, step) == step

\* line 314: final_edges.extend(step_edges)
Accumulated(final, step) == final \o step

\* build_fusion_graph, lines 314-315, and the loop's next index
Accumulate ==
    /\ pc = "accumulate"
    /\ final_edges' = Accumulated(final_edges, step_edges)
    /\ agents_queue' = new_queue
    /\ round_idx' = round_idx + 1
    /\ pc' = "loop"
    /\ UNCHANGED <<argVars, envVars, result, expandVars, obsVars, unitVars>>

Next ==
    \/ Seed \/ EnterRound \/ LeaveLoop \/ Finish
    \/ Filter \/ Concept \/ Entity \/ TermDefinition \/ ExpandReturn \/ Accumulate

Spec == Init /\ [][Next]_vars

\* build_fusion_graph has returned or raised
Ended == pc \in {"done", "raised"}

\* a step of the single thread of control: every action of Next moves pc, and
\* one of them can be taken at every position before the end
Positions == {"start", "loop", "filter", "concept", "entity", "tdg", "assemble",
              "accumulate", "final", "done", "raised"}
Advance == ~Ended /\ pc' \in Positions /\ pc' # pc

\* the calls are issued and awaited one after the other by a single thread of
\* control: a step that can be taken is taken
SpecLive == Init /\ [][Next]_vars /\ WF_pc(Advance)

(***************************************************************************)
(* The deduplicator on its own: _dedup_edges applied to an arbitrary edge  *)
(* list E, to E ++ E and to its own result.                                *)
(***************************************************************************)
DedupSources == {s_A, s_a, <<OghamSpace,"A">>, <<>>}
DedupRelations == {<<"r">>, <<"R">>}
DedupTargets == {s_eacute, s_Eacute}
DedupGraphs == {"concept", "entity"}
DedupEdgeInputs ==
    {[source |-> src, relation |-> rel, target |-> tgt, source_graph |-> g] :
        src \in DedupSources, rel \in DedupRelations, tgt \in DedupTargets,
        g \in DedupGraphs}

InitDedup ==
    /\ d_in \in SeqsUpTo(DedupEdgeInputs, MaxEdges)
    /\ d_once = <<>> /\ d_twice = <<>> /\ d_again = <<>>
    /\ pc = "dedup"
    /\ eventic_edges = <<>> /\ rounds = 0
    /\ use_concept_graph = FALSE /\ use_entity_graph = FALSE
    /\ use_term_definition_graph = FALSE /\ include_tdg_edges = FALSE
    /\ conceptnet = CW_down /\ dbpedia = EW_down
    /\ tdg_model = TR_raise /\ filter_model = FR_raise
    /\ Idle
    /\ UnitIdle

DedupOnce ==
    /\ pc = "dedup"
    /\ d_once' = _dedup_edges(d_in)
    /\ d_twice' = _dedup_edges(d_in \o d_in)
    /\ pc' = "deduped"
    /\ UNCHANGED <<argVars, envVars, buildVars, expandVars, obsVars, adapterVars,
                   d_in, d_again,
                   filterVars, tdgVars>>

DedupAgain ==
    /\ pc = "deduped"
    /\ d_again' = _dedup_edges(d_once)
    /\ pc' = "rededuped"
    /\ UNCHANGED <<argVars, envVars, buildVars, expandVars, obsVars, adapterVars,
                   d_in, d_once, d_twice,
                   filterVars, tdgVars>>

NextDedup == DedupOnce \/ DedupAgain

SpecDedup == InitDedup /\ [][NextDedup]_vars

(***************************************************************************)
(* The definition adapter on its own: build_term_definition_triples         *)
(* applied to a keyword, under every reply of the model.                   *)
(***************************************************************************)
\* build_fusion_graph is not called
BuildIdle ==
    /\ eventic_edges = <<>> /\ rounds = 0
    /\ use_concept_graph = FALSE /\ use_entity_graph = FALSE
    /\ use_term_definition_graph = FALSE /\ include_tdg_edges = FALSE
    /\ conceptnet = CW_down /\ dbpedia = EW_down
    /\ tdg_model = TR_raise /\ filter_model = FR_raise
    /\ Idle
    /\ d_in = <<>> /\ d_once = <<>> /\ d_twice = <<>> /\ d_again = <<>>
    /\ AdapterIdle

TdgKeywords == {s_A, <<" ","a"," ">>, <<"G"," ","d">>, <<>>}
TdgShapes == {"object", "array", "fenced_object", "fenced_array",
              "fenced_invalid", "plain"}
TdgObjects ==
    {Obj(src, rel, tgt) :
        src \in {<<>>, s_x},
        rel \in {<<>>, <<"r">>, S_IsA},
        tgt \in {<<>>, <<OghamSpace>>, <<" ","d","\t",OghamSpace,"e">>}}
TdgReplyInputs ==
    {TR_raise} \cup
    {[raises |-> FALSE, shape |-> sh, obj |-> o] : sh \in TdgShapes, o \in TdgObjects}

InitTdg ==
    /\ t_keyword \in TdgKeywords
    /\ t_reply \in TdgReplyInputs
    /\ t_out = <<>>
    /\ f_cands = <<>> /\ f_reply = FR_plain /\ f_out = <<>> /\ f_hard = <<>>
    /\ pc = "define"
    /\ BuildIdle

\* build_term_definition_triples(keyword) under the reply t_reply
Define ==
    /\ pc = "define"
    /\ t_out' = build_term_definition_triples(t_reply, t_keyword)
    /\ pc' = (IF t_reply.raises THEN "define_raised" ELSE "defined")
    /\ UNCHANGED <<argVars, envVars, buildVars, expandVars, obsVars, adapterVars,
                   dedupVars,
                   filterVars, t_keyword, t_reply>>

NextTdg == Define

SpecTdg == InitTdg /\ [][NextTdg]_vars

(***************************************************************************)
(* The relevance filter on its own: _pick_hard_agents_via_gpt applied to a *)
(* candidate list under every reply of the model, then the fallback of     *)
(* _expand_once.                                                           *)
(***************************************************************************)
MaxCands == 3
MaxKeep == 2

FilterCandidates == {s_A, s_a, s_Eacute, <<"D"," ","e">>}
FilterKeepTerms == {<<" ","A">>, s_eacute, <<"d"," ",OghamSpace,"E">>, s_c}
FilterReplyInputs ==
    {FR_raise}
    \cup {[raises |-> FALSE, shape |-> sh, keep |-> <<>>] :
            sh \in {"array", "fenced_invalid", "plain", "keep_number"}}
    \cup {[raises |-> FALSE, shape |-> sh, keep |-> k] :
            sh \in {"object", "fenced_object"}, k \in SeqsUpTo(FilterKeepTerms, MaxKeep)}

InitFilter ==
    /\ f_cands \in SeqsUpTo(FilterCandidates, MaxCands)
    /\ f_reply \in FilterReplyInputs
    /\ f_out = <<>> /\ f_hard = <<>>
    /\ t_keyword = <<>> /\ t_reply = TR_plain /\ t_out = <<>>
    /\ pc = "pick"
    /\ BuildIdle

\* line 201: hard_agents = _pick_hard_agents_via_gpt(agent_list)
Pick ==
    /\ pc = "pick"
    /\ f_out' = _pick_hard_agents_via_gpt(f_cands, f_reply)
    /\ pc' = (IF _pick_hard_agents_via_gpt(f_cands, f_reply).raised
              THEN "pick_raised" ELSE "picked")
    /\ UNCHANGED <<argVars, envVars, buildVars, expandVars, obsVars, adapterVars,
                   dedupVars,
                   tdgVars, f_cands, f_reply, f_hard>>

\* lines 203-206: the fallback of the round
Fallback ==
    /\ pc = "picked"
    /\ f_hard' = HardAgents(f_out.out, f_cands)
    /\ pc' = "filtered"
    /\ UNCHANGED <<argVars, envVars, buildVars, expandVars, obsVars, adapterVars,
                   dedupVars,
                   tdgVars, f_cands, f_reply, f_out>>

NextFilter == Pick \/ Fallback

SpecFilter == InitFilter /\ [][NextFilter]_vars

(***************************************************************************)
(* The concept adapter on its own: fetch_conceptnet_triples applied to one *)
(* keyword under every response of the source, with and without max_num.  *)
(***************************************************************************)
MaxRaw == 3
MaxTake == 2

\* stripped, lowered and escaped the keyword is the URL term a%27s
ConceptKeyword == <<OghamSpace,"A","'","s","\r">>
RawEdge(null, weight, rel, start, end) ==
    [null |-> null, weight |-> weight, rel |-> rel, start |-> Node(start), end |-> Node(end)]
ConceptRawEdges ==
    { RawEdge("", 1, R_IsA, s_a, s_eacute),
      RawEdge("", 4, R_IsA, s_a, s_eacute),
      RawEdge("", 5, R_IsA, s_a, s_Eacute),
      RawEdge("", 4, R_RelatedTo, s_A, s_eacute),
      RawEdge("", 4, R_IsA, s_a, s_c),
      RawEdge("", 5, R_IsA, s_a, s_c),
      RawEdge("weight", 0, R_IsA, s_a, s_b),
      RawEdge("rel", 5, <<>>, s_a, s_b),
      RawEdge("end", 1, R_IsA, s_a, <<>>) }
ConceptResponses ==
    { SourceDown,
      [ok |-> TRUE, body |-> "array", edges |-> <<>>],
      [ok |-> TRUE, body |-> "edges_null", edges |-> <<>>] }
    \cup {[ok |-> TRUE, body |-> "object", edges |-> es] :
             es \in SeqsUpTo(ConceptRawEdges, MaxRaw)}

\* nothing but the adapter is called
CallerIdle ==
    /\ f_cands = <<>> /\ f_reply = FR_plain /\ f_out = <<>> /\ f_hard = <<>>
    /\ t_keyword = <<>> /\ t_reply = TR_plain /\ t_out = <<>>
    /\ d_in = <<>> /\ d_once = <<>> /\ d_twice = <<>> /\ d_again = <<>>
    /\ eventic_edges = <<>> /\ rounds = 0
    /\ use_concept_graph = FALSE /\ use_entity_graph = FALSE
    /\ use_term_definition_graph = FALSE /\ include_tdg_edges = FALSE
    /\ conceptnet = CW_down /\ dbpedia = EW_down
    /\ tdg_model = TR_raise /\ filter_model = FR_raise
    /\ Idle

InitConcept ==
    /\ c_resp \in ConceptResponses
    /\ c_min_weight \in {0, CONCEPT_MIN_WEIGHT}
    /\ c_max_num \in {<<>>} \cup {<<n>> : n \in 0..MaxTake}
    /\ c_out = <<>>
    /\ EntityIdle
    /\ CallerIdle
    /\ pc = "fetch_concept"

\* fetch_conceptnet_triples(keyword, min_weight=.., max_num=..), the source
\* answering c_resp for the keyword's term
FetchConcept ==
    /\ pc = "fetch_concept"
    /\ LET concept == fetch_conceptnet_triples(_norm_term(ConceptKeyword) :> c_resp,
                                                ConceptKeyword, c_min_weight, c_max_num)
       IN  /\ c_out' = concept.triples
           /\ pc' = IF concept.raised THEN "fetch_raised" ELSE "fetched_concept"
    /\ UNCHANGED <<argVars, envVars, buildVars, expandVars, obsVars, dedupVars,
                   filterVars, tdgVars, entityVars, c_resp, c_min_weight, c_max_num>>

NextConcept == FetchConcept

SpecConcept == InitConcept /\ [][NextConcept]_vars

(***************************************************************************)
(* The entity adapter on its own: fetch_dbpedia_triples applied to one     *)
(* keyword, one step per request it sends; e_log lists the requests sent.  *)
(***************************************************************************)
MaxBindings == 3

EntityKeyword == s_B
LookedUpUri == S_dbr \o s_A

LookupDoc(resource, uri) == [resource |-> resource, uri |-> uri]
LookupAnswer(docs) ==
    [ok |-> TRUE, body |-> "object", docs |-> docs, boolean |-> FALSE, bindings |-> <<>>]
EntityLookups ==
    { EndpointDown,
      Misshapen("array"),
      LookupAnswer(<<>>),
      LookupAnswer(<< LookupDoc(<<>>, <<s_x>>) >>),
      LookupAnswer(<< LookupDoc(<<s_x>>, <<LookedUpUri>>), LookupDoc(<<>>, <<LookedUpUri>>) >>),
      LookupAnswer(<< LookupDoc(<<LookedUpUri>>, <<>>) >>) }
EntityAsks ==
    { EndpointDown,
      Misshapen("array"),
      [ok |-> TRUE, body |-> "object", docs |-> <<>>, boolean |-> FALSE, bindings |-> <<>>],
      [ok |-> TRUE, body |-> "object", docs |-> <<>>, boolean |-> TRUE, bindings |-> <<>>] }
EntityBindings ==
    { Binding(S_dbo \o <<"w","i","k","i","P","a","g","e","I","D">>, <<>>,
              <<"1">>, "literal", <<>>),
      Binding(S_dbo \o S_IsA, <<>>, s_eacute, "literal", <<>>),
      Binding(S_dbo \o S_IsA, <<>>, S_dbr \o s_Eacute, "uri", <<>>),
      Binding(S_dbo \o <<"r">>, <<"R">>, S_dbr \o <<"b","_","c">>, "uri", <<>>) }
EntitySelects ==
    {EndpointDown, Misshapen("array"), Misshapen("results_null"),
     Misshapen("bindings_null")} \cup
    {[ok |-> TRUE, body |-> "object", docs |-> <<>>, boolean |-> FALSE, bindings |-> bs] :
        bs \in SeqsUpTo(EntityBindings, MaxBindings)}

InitEntity ==
    /\ \E l \in EntityLookups, a \in EntityAsks, q \in EntitySelects :
          e_src = [lookup |-> (EntityKeyword :> l),
                   ask |-> (FallbackCandidate(EntityKeyword) :> a),
                   sparql |-> (LookedUpUri :> q) @@ (FallbackCandidate(EntityKeyword) :> q)]
    /\ e_keyword = EntityKeyword
    /\ e_max_num \in 0..MaxTake
    /\ e_log = <<>> /\ e_out = <<>>
    /\ ConceptIdle
    /\ CallerIdle
    /\ pc = "lookup"

\* resolve_dbpedia_entity, lines 86-114: the lookup request; line 108 returns
\* the identifier found, otherwise the fallback of lines 117-120 follows
Lookup ==
    /\ pc = "lookup"
    /\ e_log' = Append(e_log, "lookup")
    /\ pc' = IF AskIssued(e_src, e_keyword) THEN "ask" ELSE "select"
    /\ UNCHANGED <<argVars, envVars, buildVars, expandVars, obsVars, dedupVars,
                   filterVars, tdgVars, conceptVars, e_src, e_keyword, e_max_num, e_out>>

\* _check_resource_exists on the fallback candidate (line 120); without a
\* resource fetch_dbpedia_triples returns [] (lines 187-189)
Ask ==
    /\ pc = "ask"
    /\ e_log' = Append(e_log, "ask")
    /\ pc' = IF _check_resource_exists(e_src, FallbackCandidate(e_keyword))
             THEN "select" ELSE "returned"
    /\ UNCHANGED <<argVars, envVars, buildVars, expandVars, obsVars, dedupVars,
                   filterVars, tdgVars, conceptVars, e_src, e_keyword, e_max_num, e_out>>

\* the outgoing-relations query and the loop over its bindings (lines 191-276)
Select ==
    /\ pc = "select"
    /\ e_log' = Append(e_log, "select")
    /\ LET entity == fetch_dbpedia_triples(e_src, e_keyword, e_max_num)
       IN  /\ e_out' = entity.triples
           /\ pc' = IF entity.raised THEN "select_raised" ELSE "returned"
    /\ UNCHANGED <<argVars, envVars, buildVars, expandVars, obsVars, dedupVars,
                   filterVars, tdgVars, conceptVars, e_src, e_keyword, e_max_num>>

NextEntity == Lookup \/ Ask \/ Select

SpecEntity == InitEntity /\ [][NextEntity]_vars

(***************************************************************************)
(* Properties.                                                             *)
(***************************************************************************)
\* the identity key of an edge as the data model states it, on the edge's
\* whitespace-normalised fields
IdentityKey(e) ==
    <<Lower(_norm(e.source)), _norm(e.relation), Lower(_norm(e.target)), e.source_graph>>

\* the same key on the fields as given
RawKey(e) == <<Lower(e.source), e.relation, Lower(e.target), e.source_graph>>

SeedEdges == _eventic_to_triples(eventic_edges)

\* the seed edges deduplicated, computed from the identity key alone: the first
\* edge of every key, fields non-empty
RECURSIVE FirstOfEachKey(_, _)
FirstOfEachKey(es, keys) ==
    IF es = <<>> THEN <<>>
    ELSE IF Head(es).source = <<>> \/ Head(es).relation = <<>> \/ Head(es).target = <<>>
            \/ IdentityKey(Head(es)) \in keys
         THEN FirstOfEachKey(Tail(es), keys)
         ELSE <<Head(es)>> \o FirstOfEachKey(Tail(es), keys \cup {IdentityKey(Head(es))})

DedupSeed == FirstOfEachKey(SeedEdges, {})

InRound == pc \in {"filter", "concept", "entity", "tdg", "assemble", "accumulate"}

\* C1: with rounds = 0 no round is entered, neither the filter nor an adapter is
\* ever called, and the graph returned is exactly the deduplicated seed edges.
C1_RoundsZero ==
    rounds = 0 =>
        /\ ~InRound /\ pc # "raised"
        /\ calls = <<>> /\ history = <<>>
        /\ pc = "done" => result = DedupSeed

C1_Witness ==
    /\ rounds = 0 /\ pc = "done"
    /\ agents_queue # <<>> /\ Len(result) = 2
    /\ use_concept_graph /\ conceptnet = CW_cycle /\ use_entity_graph

\* C2: with the three source graphs disabled build_fusion_graph returns, for
\* every input, and the graph it returns is exactly the deduplicated seed
\* edges, all tagged eventic; no adapter is called and no round yields an
\* edge or a frontier term.
C2_AllDisabledReturnsSeed ==
    (~use_concept_graph /\ ~use_entity_graph /\ ~use_term_definition_graph) =>
        /\ pc # "raised"
        /\ \A i \in 1..Len(calls) : calls[i][1] = "filter"
        /\ \A i \in 1..Len(history) :
              history[i].new_edges = <<>> /\ history[i].next_frontier = <<>>
        /\ pc = "done" =>
              /\ result = DedupSeed
              /\ \A i \in 1..Len(result) : result[i].source_graph = "eventic"

\* C3: no term of a round's next frontier equals, ignoring case, a term of the
\* agent queue that round was given.
C3_FrontierExclusion ==
    /\ \A i \in 1..Len(history) :
          \A t \in Range(history[i].next_frontier), a \in Range(history[i].agents) :
              Lower(t) # Lower(a)
    /\ pc = "accumulate" =>
          \A t \in Range(new_queue), a \in Range(agent_list) : Lower(t) # Lower(a)

\* a round in which an adapter returned, as a target, an agent of the round's
\* queue that the filter had not selected, and other terms entered the frontier
C3_Witness ==
    \E i \in 1..Len(history) :
        LET h == history[i] IN
        /\ h.next_frontier # <<>>
        /\ \E a \in Range(h.agents) \ Range(h.hard) :
              \E j \in 1..Len(h.calls) :
                  /\ h.calls[j][1] \in {"concept", "entity"}
                  /\ \E k \in 1..Len(h.calls[j][3]) :
                        Lower(_norm(h.calls[j][3][k].target)) = Lower(a)

\* C4: when build_fusion_graph returns, every edge of every round's new_edges
\* has an edge of the same identity key in the graph returned.
C4_RoundEdgesContained ==
    pc = "done" =>
        \A i \in 1..Len(history) :
            \A e \in Range(history[i].new_edges) :
                \E f \in Range(result) : IdentityKey(f) = IdentityKey(e)

\* several rounds added edges, and an edge of a later round collapsed into an
\* equal-key edge of an earlier one
C4_Witness ==
    /\ pc = "done" /\ Len(history) >= 2
    /\ \A i \in 1..Len(history) : history[i].new_edges # <<>>
    /\ \E i, j \in 1..Len(history) :
          /\ i < j
          /\ \E e \in Range(history[j].new_edges), f \in Range(history[i].new_edges) :
                IdentityKey(e) = IdentityKey(f)
    /\ Len(result) < Len(final_edges)

\* C5 as stated: the graph returned has at least as many edges as
\* _eventic_to_triples produced.
C5_AtLeastSeedCount == pc = "done" => Len(result) >= Len(SeedEdges)

\* C5 as amended: the graph returned has at least as many edges as there are
\* seed edges of distinct identity keys.
C5_AtLeastDistinctSeedCount == pc = "done" => Len(result) >= Len(DedupSeed)

\* two seed edges of different keys, and rounds that added edges
C5_Witness ==
    /\ pc = "done" /\ Len(DedupSeed) = 2 /\ Len(SeedEdges) = 2
    /\ Len(history) >= 1 /\ Len(result) > 2

\* the filter's own selection in the round under way, and in a returned round
FilterPicked(cs) == cs[1][3]

\* the adapters enabled by the configuration
EnabledAdapters ==
    (IF use_concept_graph THEN {"concept"} ELSE {})
    \cup (IF use_entity_graph THEN {"entity"} ELSE {})
    \cup (IF use_term_definition_graph THEN {"term_definition"} ELSE {})

\* C6: in a round whose filter selected nothing the terms expanded are the
\* round's whole input queue, and when the round returns every enabled adapter
\* has been called for every term of that queue.
C6_FilterFallback ==
    /\ (pc \in {"concept", "entity", "tdg", "assemble", "accumulate"}
        /\ FilterPicked(calls) = <<>>) => hard_agents = agent_list
    /\ \A i \in 1..Len(history) :
          LET h == history[i] IN
          FilterPicked(h.calls) = <<>> =>
              /\ h.hard = h.agents
              /\ \A a \in Range(h.agents), g \in EnabledAdapters :
                    \E j \in 1..Len(h.calls) : h.calls[j][1] = g /\ h.calls[j][2] = a

\* a returned round of two agents in which the model's keep list was not empty
\* but matched no candidate, all three adapters enabled
C6_Witness ==
    \E i \in 1..Len(history) :
        /\ FilterPicked(history[i].calls) = <<>>
        /\ filter_model.shape = "object" /\ filter_model.keep # <<>>
        /\ Len(history[i].agents) = 2
        /\ EnabledAdapters = {"concept", "entity", "term_definition"}

\* C7: _dedup_edges(E ++ E) = _dedup_edges(E) and
\* _dedup_edges(_dedup_edges(E)) = _dedup_edges(E).
C7_IdempotentDedup ==
    /\ pc \in {"deduped", "rededuped"} => d_twice = d_once
    /\ pc = "rededuped" => d_again = d_once

\* two different edges that collapse, the one kept being normalised
C7_Witness ==
    /\ pc = "rededuped" /\ Len(d_in) = 2 /\ d_in[1] # d_in[2]
    /\ Len(d_once) = 1 /\ d_once[1] # d_in[1]

\* two edges in, both with all fields non-empty as given
BothGiven ==
    /\ pc \in {"deduped", "rededuped"} /\ Len(d_in) = 2
    /\ \A i \in 1..2 :
          d_in[i].source # <<>> /\ d_in[i].relation # <<>> /\ d_in[i].target # <<>>

\* C8 as stated: two edges with non-empty fields collapse into one if and only
\* if they agree on (lowercase source, relation, lowercase target, source_graph)
\* of their fields as given.
C8_CollapseIffRawKeysAgree ==
    BothGiven => (Len(d_once) = 1 <=> RawKey(d_in[1]) = RawKey(d_in[2]))

\* C8 as amended: two edges whose whitespace-normalised fields are non-empty
\* collapse into one if and only if they agree on the identity key of their
\* normalised fields.
C8_CollapseIffKeysAgree ==
    (/\ pc \in {"deduped", "rededuped"} /\ Len(d_in) = 2
     /\ \A i \in 1..2 : /\ _norm(d_in[i].source) # <<>>
                        /\ _norm(d_in[i].relation) # <<>>
                        /\ _norm(d_in[i].target) # <<>>)
    => (Len(d_once) = 1 <=> IdentityKey(d_in[1]) = IdentityKey(d_in[2]))

\* edges differing only in the letter case of the source collapse
C8_Witness ==
    /\ pc = "deduped" /\ Len(d_in) = 2
    /\ d_in[1].source = s_A /\ d_in[2].source = s_a
    /\ d_in[1].relation = d_in[2].relation /\ d_in[1].target = d_in[2].target
    /\ d_in[1].source_graph = d_in[2].source_graph
    /\ Len(d_once) = 1

\* C9: every edge of the graph returned has a non-empty source, relation and
\* target and one of the four source-graph tags, and no two edges share an
\* identity key.
C9_OutputWellFormed ==
    pc = "done" =>
        /\ \A i \in 1..Len(result) :
              /\ result[i].source # <<>>
              /\ result[i].relation # <<>>
              /\ result[i].target # <<>>
              /\ result[i].source_graph \in
                    {"eventic", "concept", "entity", "term_definition"}
        /\ \A i, j \in 1..Len(result) :
              IdentityKey(result[i]) = IdentityKey(result[j]) => i = j

\* a graph returned after an adapter delivered an edge with an empty field and
\* edges of equal identity key
C9_Witness ==
    /\ pc = "done" /\ Len(result) < Len(final_edges)
    /\ \E i \in 1..Len(history) :
          \E j \in 1..Len(history[i].calls) :
              /\ history[i].calls[j][1] \in {"concept", "term_definition"}
              /\ \E k \in 1..Len(history[i].calls[j][3]) :
                    \/ history[i].calls[j][3][k].relation = <<>>
                    \/ history[i].calls[j][3][k].target = <<>>
    /\ \E i \in 1..Len(result) : result[i].source_graph = "concept"

\* C10: no failure inside an Expansion Round propagates out of _expand_once.
C10_NoFailurePropagates == pc # "raised"

\* every external source is unavailable: the two knowledge sources answer
\* nothing, the definition model and the filter model fail or answer no JSON
SourcesUnavailable ==
    /\ conceptnet = CW_down /\ dbpedia = EW_down
    /\ tdg_model \in {TR_raise, TR_plain}
    /\ filter_model \in {FR_raise, FR_plain}

\* C11: when every external source is unavailable, build_fusion_graph does not
\* raise and the graph it returns is exactly the deduplicated seed edges.
C11_WorstCaseDegradation ==
    SourcesUnavailable =>
        /\ pc # "raised"
        /\ pc = "done" => result = DedupSeed

\* C12: after seeding the orchestrator stands at the head of round 1; standing
\* at the head of round i+1 (i rounds returned) it runs that round exactly
\* when the frontier it holds is non-empty and i < rounds, and otherwise goes
\* to its end without a filter or adapter call and without a new edge; a round
\* that returned hands its frontier to the head of the next round.
C12_OrchestratorStateMachine ==
    [][ /\ pc = "start" => pc' = "loop" /\ round_idx' = 0 /\ history' = <<>>
        /\ pc = "loop" =>
              /\ round_idx = Len(history)
              /\ pc' \in {"filter", "final"}
              /\ pc' = "filter" <=> (agents_queue # <<>> /\ round_idx < rounds)
              /\ pc' = "filter" => agent_list' = agents_queue /\ calls' = <<>>
              /\ pc' = "final" =>
                    /\ final_edges' = final_edges
                    /\ calls' = calls /\ history' = history
        /\ pc = "accumulate" =>
              /\ pc' = "loop" /\ round_idx' = round_idx + 1
              /\ agents_queue' = history[Len(history)].next_frontier
        /\ pc = "final" => pc' = "done" /\ history' = history
      ]_vars

\* two rounds ran and the third was not run although the budget allowed it,
\* its frontier being empty
C12_Witness ==
    /\ pc = "done" /\ rounds = 3 /\ Len(history) = 2
    /\ agents_queue = <<>>
    /\ history[1].next_frontier # <<>>

\* a knowledge source that answers some request with JSON of a shape on
\* which its adapter raises
ConceptSourceMisshapen ==
    \E t \in DOMAIN conceptnet : ConceptRaises(conceptnet[t], CONCEPT_MIN_WEIGHT)
EntitySourceMisshapen ==
    \E u \in DOMAIN dbpedia.sparql :
        dbpedia.sparql[u].ok /\ dbpedia.sparql[u].body # "object"

\* every call the run makes returns: neither model call raises and neither
\* knowledge adapter does
EveryCallReturns ==
    /\ ~FilterRaises(filter_model)
    /\ use_term_definition_graph => ~tdg_model.raises
    /\ use_concept_graph => ~ConceptSourceMisshapen
    /\ use_entity_graph => ~EntitySourceMisshapen

\* C13: when every call returns, build_fusion_graph eventually returns, and it
\* never runs more than `rounds` Expansion Rounds, even when every round
\* yields a non-empty next frontier.
C13_Termination ==
    /\ [](Len(history) <= rounds /\ round_idx <= rounds)
    /\ EveryCallReturns => <>(pc = "done")

\* the run returned after spending its whole budget, every round having
\* yielded a non-empty next frontier
C13_Witness ==
    /\ pc = "done" /\ rounds = MaxRounds /\ Len(history) = rounds
    /\ \A i \in 1..Len(history) : history[i].next_frontier # <<>>

\* the whitespace-normalised targets of the triples that the adapters named in
\* graphs returned during a round, given the round's calls
ReturnedTargets(cs, graphs) ==
    UNION {{_norm(cs[j][3][k].target) : k \in 1..Len(cs[j][3])} :
              j \in {n \in 1..Len(cs) : cs[n][1] \in graphs}}

\* C14: every term of a round's next frontier is the whitespace-normalised
\* target of a triple that the Concept or the Entity adapter returned in that
\* round; a target returned by the Term-Definition adapter only is never in
\* the next frontier, whatever include_tdg_edges.
C14_DefinitionsTerminal ==
    \A i \in 1..Len(history) :
        LET explored == ReturnedTargets(history[i].calls, {"concept", "entity"})
            defined == ReturnedTargets(history[i].calls, {"term_definition"})
        IN  /\ Range(history[i].next_frontier) \subseteq explored
            /\ \A d \in defined \ explored : d \notin Range(history[i].next_frontier)

\* a round that got a definition with a non-empty target, which no other
\* adapter returned, and that found a next frontier
C14_Witness ==
    \E i \in 1..Len(history) :
        /\ history[i].next_frontier # <<>>
        /\ \E d \in ReturnedTargets(history[i].calls, {"term_definition"}) :
              /\ d # <<>>
              /\ d \notin ReturnedTargets(history[i].calls, {"concept", "entity"})

\* C15: whatever text the model returns, build_term_definition_triples returns
\* exactly one triple, with relation "IsA" and the input keyword, unchanged,
\* as source; when the text holds no parsable JSON object, array or fenced
\* block the target is the empty string.
C15_ExactlyOneDefinition ==
    (pc = "defined" /\ ~t_reply.raises) =>
        /\ ~t_out.raised
        /\ Len(t_out.triples) = 1
        /\ t_out.triples[1].relation = S_IsA
        /\ t_out.triples[1].source = t_keyword
        /\ t_reply.shape \in {"plain", "fenced_invalid"} =>
              t_out.triples[1].target = <<>>

\* the model paraphrased a keyword that carries spaces, inside a fenced array
C15_Witness ==
    /\ pc = "defined" /\ t_reply.shape = "fenced_array"
    /\ t_keyword = <<" ","a"," ">> /\ t_reply.obj.source = s_x
    /\ t_out.triples[1].target = <<"d"," ","e">>

\* C16: when the model call of the Term-Definition adapter raises,
\* build_term_definition_triples does not raise and returns the placeholder
\* triple {source: keyword, relation: "IsA", target: ""}.
C16_FailingModelGivesPlaceholder ==
    (pc \in {"defined", "define_raised"} /\ t_reply.raises) =>
        /\ ~t_out.raised
        /\ t_out.triples = <<[source |-> t_keyword, relation |-> S_IsA,
                              target |-> <<>>]>>

\* the triples that the Term-Definition adapter returned during a round
DefinitionsReturned(cs) ==
    UNION {Range(cs[j][3]) : j \in {n \in 1..Len(cs) : cs[n][1] = "term_definition"}}

\* the edge that carries a definition triple, fields whitespace-normalised
DefinitionEdge(t) ==
    [source |-> _norm(t.source), relation |-> _norm(t.relation),
     target |-> _norm(t.target), source_graph |-> "term_definition"]

DefinitionEdgesOf(h) ==
    {e \in Range(h.new_edges) : e.source_graph = "term_definition"}

\* C17 as stated: with the adapter enabled and include_tdg_edges true, every
\* triple it returned in a round, a placeholder with an empty target
\* included, is among the round's new_edges tagged term_definition; with
\* include_tdg_edges false none is.
C17_EveryDefinitionPassedOn ==
    \A i \in 1..Len(history) :
        IF use_term_definition_graph /\ include_tdg_edges
        THEN \A t \in DefinitionsReturned(history[i].calls) :
                DefinitionEdge(t) \in DefinitionEdgesOf(history[i])
        ELSE DefinitionEdgesOf(history[i]) = {}

\* C17, amended: with the adapter enabled and include_tdg_edges true, the
\* term_definition edges of a round's new_edges are exactly the definitions
\* returned in the round whose source and target are non-empty once
\* whitespace-normalised, in normalised form; a placeholder with an empty
\* target is dropped; with include_tdg_edges false there is none.
C17_CompleteDefinitionsPassedOn ==
    \A i \in 1..Len(history) :
        IF use_term_definition_graph /\ include_tdg_edges
        THEN DefinitionEdgesOf(history[i]) =
                {DefinitionEdge(t) : t \in
                    {d \in DefinitionsReturned(history[i].calls) :
                        _norm(d.source) # <<>> /\ _norm(d.target) # <<>>}}
        ELSE DefinitionEdgesOf(history[i]) = {}

\* a round, definitions included, that got a definition for each of two terms
\* and passed both on, their targets normalised
C17_Witness ==
    /\ use_term_definition_graph /\ include_tdg_edges
    /\ \E i \in 1..Len(history) :
          /\ Cardinality(DefinitionsReturned(history[i].calls)) = 2
          /\ Cardinality(DefinitionEdgesOf(history[i])) = 2
          /\ \A e \in DefinitionEdgesOf(history[i]) : e.target = <<"d"," ","e">>

\* whether out can be obtained from cands by deleting elements
RECURSIVE IsSubsequence(_, _)
IsSubsequence(out, cands) ==
    IF out = <<>> THEN TRUE
    ELSE IF cands = <<>> THEN FALSE
    ELSE IF Head(out) = Head(cands) THEN IsSubsequence(Tail(out), Tail(cands))
    ELSE IsSubsequence(out, Tail(cands))

\* C18: the result of the relevance filter is a subsequence of the input
\* candidates: each returned string is an input candidate in the input's
\* spelling, none is repeated, and they come in the input's relative order.
C18_FilterKeepsInputOrder ==
    pc \in {"picked", "filtered"} =>
        /\ Range(f_out.out) \subseteq Range(f_cands)
        /\ \A i, j \in 1..Len(f_out.out) :
              Lower(f_out.out[i]) = Lower(f_out.out[j]) => i = j
        /\ IsSubsequence(f_out.out, f_cands)

\* the model's text could not be parsed into an object with a keep list
ParseFailure(reply) ==
    ~reply.raises /\ reply.shape \in {"plain", "fenced_invalid", "array", "keep_number"}

\* C19: a failure to parse the filter model's response does not raise, and
\* the round falls back to the full, unchanged candidate list.
C19_ParseFailureFallsBack ==
    (pc \in {"picked", "pick_raised", "filtered"} /\ ParseFailure(f_reply)
       /\ f_cands # <<>>) =>
        /\ ~f_out.raised
        /\ pc = "filtered" => f_hard = f_cands

\* the field of an event record, under either spelling of its name (and
\* Agent1 for the agent); <<>> when the record lacks it
AgentField(row) ==
    LET present == {k \in {K_Agent, K_agent, K_Agent1, K_agent1} : Get(row, k) # <<>>}
    IN  IF K_Agent \in present THEN Get(row, K_Agent)
        ELSE IF K_agent \in present THEN Get(row, K_agent)
        ELSE IF K_Agent1 \in present THEN Get(row, K_Agent1)
        ELSE Get(row, K_agent1)
DeonticField(row) ==
    IF Get(row, K_Deontic) # <<>> THEN Get(row, K_Deontic) ELSE Get(row, K_deontic)
ActionField(row) ==
    IF Get(row, K_Action) # <<>> THEN Get(row, K_Action) ELSE Get(row, K_action)

HasAllFields(row) ==
    AgentField(row) # <<>> /\ DeonticField(row) # <<>> /\ ActionField(row) # <<>>

\* how many of the first n event records have the three fields
CompleteUpTo(n) == Cardinality({i \in 1..n : HasAllFields(eventic_edges[i])})

\* seeding is done and no round has run
Seeded == pc = "loop" /\ round_idx = 0

\* C20 as stated: each event record with non-empty Agent, Deontic and Action
\* yields one seed triple whose source, relation and target are these values,
\* tagged eventic; a record that lacks one of them yields no seed edge.
C20_SeedFieldsAsGiven ==
    Seeded =>
        /\ Len(final_edges) = CompleteUpTo(Len(eventic_edges))
        /\ \A i \in 1..Len(eventic_edges) :
              HasAllFields(eventic_edges[i]) =>
                  final_edges[CompleteUpTo(i)] =
                      [source |-> AgentField(eventic_edges[i]),
                       relation |-> DeonticField(eventic_edges[i]),
                       target |-> ActionField(eventic_edges[i]),
                       source_graph |-> "eventic"]

\* C20, amended: each event record with non-empty Agent, Deontic and Action
\* yields, in order, one seed triple whose source, relation and target are
\* these values whitespace-normalised, tagged eventic; a record that lacks
\* one of them yields no seed edge, and seeding never fails.
C20_SeedFieldsNormalized ==
    /\ pc = "raised" => history # <<>> \/ calls # <<>>
    /\ Seeded =>
        /\ Len(final_edges) = CompleteUpTo(Len(eventic_edges))
        /\ \A i \in 1..Len(eventic_edges) :
              HasAllFields(eventic_edges[i]) =>
                  final_edges[CompleteUpTo(i)] =
                      [source |-> _norm(AgentField(eventic_edges[i])),
                       relation |-> _norm(DeonticField(eventic_edges[i])),
                       target |-> _norm(ActionField(eventic_edges[i])),
                       source_graph |-> "eventic"]

\* a record without Action followed by a record whose values carry spaces
C20_Witness ==
    /\ Seeded
    /\ eventic_edges = <<Ev_B_noAction, Ev_a>>
    /\ final_edges = <<[source |-> s_a, relation |-> <<"M">>,
                        target |-> <<"x"," ","y">>, source_graph |-> "eventic"]>>

\* the agent queue q holds no empty string and no two terms equal but for case
DistinctTerms(q) ==
    /\ \A k \in 1..Len(q) : q[k] # <<>>
    /\ Cardinality({Lower(q[k]) : k \in 1..Len(q)}) = Len(q)

\* the Agent value of the i-th event record, whitespace-normalised
AgentValue(i) == _norm(FirstAgentValue(eventic_edges[i]))

\* q lists the non-empty Agent values of the event records, each once, as it
\* is spelled where it first occurs, in the order of these first occurrences
InFirstOccurrenceOrder(q) ==
    LET lowered == [i \in 1..Len(eventic_edges) |-> Lower(AgentValue(i))]
        firsts == {i \in 1..Len(eventic_edges) :
                      /\ lowered[i] # <<>>
                      /\ \A j \in 1..(i - 1) : lowered[j] # lowered[i]}
    IN  /\ Len(q) = Cardinality(firsts)
        /\ \A i \in firsts : q[Cardinality({j \in firsts : j <= i})] = AgentValue(i)

\* a round has just returned; its record is the last of history, which only
\* grows, so every round's record is examined once, when it is written
Returned == pc = "accumulate"
LastRound == history[Len(history)]

\* C21: the agent queue at the start of every Expansion Round, and every
\* frontier a round returns, holds no empty string and no two terms that are
\* equal case-insensitively; the initial frontier lists the Agent values of
\* the event records in the order of their first occurrence.
C21_AgentQueueInvariant ==
    /\ pc = "loop" => DistinctTerms(agents_queue)
    /\ pc = "filter" => DistinctTerms(agent_list)
    /\ Returned =>
          DistinctTerms(LastRound.agents) /\ DistinctTerms(LastRound.next_frontier)
    /\ Seeded => InFirstOccurrenceOrder(agents_queue)
    /\ (pc = "filter" /\ round_idx = 0) => InFirstOccurrenceOrder(agent_list)

\* the same agent under two spellings: round 1 started with the first
\* spelling alone, and round 2 starts with at least two new terms
C21_Witness ==
    /\ eventic_edges = <<Ev_a, Ev_A>> /\ Len(history) = 1
    /\ pc = "filter" /\ round_idx = 1
    /\ history[1].agents = <<s_a>>
    /\ Len(agent_list) >= 2

\* the terms of q, lower-cased
LowerTerms(q) == {Lower(q[k]) : k \in 1..Len(q)}

\* an adapter was called for term during the round h
Expanded(h, term) ==
    \E j \in 1..Len(h.calls) :
        /\ h.calls[j][1] \in {"concept", "entity", "term_definition"}
        /\ h.calls[j][2] = term

\* C22: cycle-breaking is local to a round: a term of a round's input queue
\* is never in the input queue of the round that follows; it can be in the
\* queue of the round after that and be expanded again (C22_Witness).
C22_ExcludedFromNextRoundOnly ==
    /\ \A i \in 1..(Len(history) - 1) :
          LowerTerms(history[i].agents) \cap LowerTerms(history[i + 1].agents) = {}
    /\ (InRound /\ history # <<>> /\ round_idx = Len(history)) =>
          LowerTerms(history[Len(history)].agents) \cap LowerTerms(agent_list) = {}

\* a term of round 1's input queue is in round 3's input queue, and an adapter
\* was called for it in both rounds
C22_Witness ==
    /\ rounds >= 3 /\ Len(history) >= 3
    /\ \E t \in Range(history[1].agents) :
          \E u \in Range(history[3].agents) :
              /\ Lower(t) = Lower(u)
              /\ Expanded(history[1], t)
              /\ Expanded(history[3], u)

\* the calls of a round as <<callee, term>> pairs
Callees(cs) == [j \in 1..Len(cs) |-> <<cs[j][1], cs[j][2]>>]

\* the adapter calls that the fan-out over targets makes: for each target in
\* turn, the enabled adapters in the order Concept, Entity, Term-Definition
RECURSIVE FanOut(_)
FanOut(targets) ==
    IF targets = <<>> THEN <<>>
    ELSE (IF use_concept_graph THEN << <<"concept", Head(targets)>> >> ELSE <<>>)
         \o (IF use_entity_graph THEN << <<"entity", Head(targets)>> >> ELSE <<>>)
         \o (IF use_term_definition_graph
             THEN << <<"term_definition", Head(targets)>> >> ELSE <<>>)
         \o FanOut(Tail(targets))

\* the calls of a whole round over the queue agents, given the calls made so
\* far: the filter, then the fan-out over what the filter kept, or over
\* agents when it kept nothing
RoundCalls(cs, agents) ==
    << <<"filter", <<>>>> >> \o FanOut(IF cs[1][3] # <<>> THEN cs[1][3] ELSE agents)

IsPrefix(p, q) == Len(p) <= Len(q) /\ \A k \in 1..Len(p) : p[k] = q[k]

\* C23: in every Expansion Round the filter is called first; then, for each
\* target in order, every enabled adapter is called exactly once, in the order
\* Concept, Entity, Term-Definition; no disabled adapter and no term outside
\* the targets is called; the round returns its frontier and new_edges only
\* after the calls for the last target.
C23_FanOutDiscipline ==
    /\ \A i \in 1..Len(history) :
          Callees(history[i].calls) = RoundCalls(history[i].calls, history[i].agents)
    /\ ((InRound \/ pc = "raised") /\ calls # <<>>) =>
          IsPrefix(Callees(calls), RoundCalls(calls, agent_list))
    /\ pc \in {"assemble", "accumulate"} =>
          Callees(calls) = RoundCalls(calls, agent_list)
    /\ pc \in {"filter", "concept", "entity", "tdg", "assemble"} =>
          Len(history) = round_idx

\* a round over two targets with the three adapters enabled has returned
C23_Witness ==
    /\ use_concept_graph /\ use_entity_graph /\ use_term_definition_graph
    /\ \E i \in 1..Len(history) :
          /\ Len(history[i].hard) = 2
          /\ Len(history[i].calls) = 7
          /\ history[i].new_edges # <<>>

\* C24: what the model emits as source and relation does not influence the
\* result: every JSON object with the same non-empty target, whatever its
\* source and relation (empty and missing included), gives the same triple
\* {source: keyword, relation: "IsA", target: that target}.
C24_SourceAndRelationIgnored ==
    (pc = "defined" /\ t_reply.shape = "object" /\ _norm(t_reply.obj.target) # <<>>) =>
        /\ t_out.triples = <<[source |-> t_keyword, relation |-> S_IsA,
                              target |-> _norm(t_reply.obj.target)]>>
        /\ \A o \in TdgObjects :
              o.target = t_reply.obj.target =>
                  build_term_definition_triples([t_reply EXCEPT !.obj = o], t_keyword)
                      = t_out

\* the triple that the i-th edge of the response stands for
RawTriple(i) ==
    [source |-> _label_of(c_resp.edges[i].start),
     relation |-> _rel_of(c_resp.edges[i].rel),
     target |-> _label_of(c_resp.edges[i].end)]

RawSig(i) ==
    <<Lower(RawTriple(i).source), RawTriple(i).relation, Lower(RawTriple(i).target)>>

\* the edges of the response that remain: weight at least min_weight, and the
\* first such edge of its (lowercase source, relation, lowercase target)
Remaining ==
    {i \in 1..Len(c_resp.edges) :
        /\ c_resp.edges[i].weight >= c_min_weight
        /\ \A j \in 1..(i - 1) :
              c_resp.edges[j].weight >= c_min_weight => RawSig(j) # RawSig(i)}

\* the remaining edge that the k-th result stands for
RemainingOf(k) == CHOOSE i \in Remaining : RawTriple(i) = c_out[k]

\* C25: fetch_conceptnet_triples returns only edges of weight >= min_weight,
\* no two of them equal in (lowercase source, relation, lowercase target),
\* in order of non-increasing weight; with max_num given, at most max_num of
\* them, the highest-weighted ones; without, all of them; no returned triple
\* has a weight field.
C25_ConceptResultShaped ==
    pc = "fetched_concept" =>
        /\ \A k \in 1..Len(c_out) :
              /\ DOMAIN c_out[k] = {"source", "relation", "target"}
              /\ \E i \in Remaining : RawTriple(i) = c_out[k]
        /\ \A k, l \in 1..Len(c_out) :
              /\ (<<Lower(c_out[k].source), c_out[k].relation, Lower(c_out[k].target)>>
                    = <<Lower(c_out[l].source), c_out[l].relation, Lower(c_out[l].target)>>)
                 => k = l
              /\ k < l => c_resp.edges[RemainingOf(k)].weight
                             >= c_resp.edges[RemainingOf(l)].weight
        /\ Len(c_out) = (IF c_max_num # <<>> /\ c_max_num[1] < Cardinality(Remaining)
                         THEN c_max_num[1] ELSE Cardinality(Remaining))
        /\ \A i \in Remaining \ {RemainingOf(k) : k \in 1..Len(c_out)} :
              \A k \in 1..Len(c_out) :
                  c_resp.edges[i].weight <= c_resp.edges[RemainingOf(k)].weight

\* three edges answered, the first two equal but for the case of the target,
\* the third heavier; one result asked for, and the third edge is returned
C25_Witness ==
    /\ pc = "fetched_concept" /\ c_max_num = <<1>> /\ c_min_weight = CONCEPT_MIN_WEIGHT
    /\ Len(c_resp.edges) = 3 /\ Cardinality(Remaining) = 2
    /\ c_resp.edges[1].weight = 4 /\ c_resp.edges[2].weight = 5
    /\ RawSig(1) = RawSig(2)
    /\ c_resp.edges[3].weight = 5
    /\ c_out = <<RawTriple(3)>>

\* the lookup gave no well-formed identifier: no answer, or no doc whose
\* identifier begins with "http"
NoLookupHit ==
    LET r == EndpointResponse(e_src.lookup, e_keyword) IN
    \/ ~r.ok \/ r.body # "object"
    \/ \A i \in 1..Len(r.docs) : ~StartsWith(DocUri(r.docs[i]), S_http)

\* the existence check is negative or fails
NoResource ==
    LET a == EndpointResponse(e_src.ask, FallbackCandidate(e_keyword)) IN
    ~a.ok \/ a.body # "object" \/ ~a.boolean

Sent(request) == \E i \in 1..Len(e_log) : e_log[i] = request

\* C26: the existence (ASK) query is sent only when the lookup produced no
\* well-formed identifier; when the lookup yields nothing and the existence
\* check is negative or fails, the fetch returns an empty list and the
\* outgoing-relations query is never sent.
C26_EntityResolutionProtocol ==
    /\ Sent("ask") => NoLookupHit
    /\ (Sent("lookup") /\ NoLookupHit /\ NoResource) =>
          /\ ~Sent("select")
          /\ pc \in {"ask", "returned"}
          /\ e_out = <<>>

\* the lookup answered a doc without a well-formed identifier, the existence
\* check answered false, and the fetch returned nothing after two requests
\* although the source had relations to give
C26_Witness ==
    /\ pc = "returned" /\ e_log = <<"lookup", "ask">> /\ e_out = <<>>
    /\ e_src.lookup[e_keyword].ok /\ e_src.lookup[e_keyword].docs # <<>>
    /\ e_src.ask[FallbackCandidate(e_keyword)].ok
    /\ Len(e_src.sparql[FallbackCandidate(e_keyword)].bindings) = MaxBindings

\* the bindings the outgoing-relations query answered
Answered == EndpointResponse(e_src.sparql, resolve_dbpedia_entity(e_src, e_keyword)).bindings

RelationOf(i) ==
    [source |-> ReplaceChar(_localname(resolve_dbpedia_entity(e_src, e_keyword)), "_", " "),
     relation |-> RelationText(Answered[i]),
     target |-> TargetText(Answered[i])]

RelationSig(i) ==
    <<Lower(RelationOf(i).source), RelationOf(i).relation, Lower(RelationOf(i).target)>>

\* the answered relations that are not excluded and are the first of their
\* (lowercase source, relation, lowercase target)
Distinct ==
    {i \in 1..Len(Answered) :
        /\ ~_is_wiki_relation(Answered[i].p, _localname(Answered[i].p))
        /\ \A j \in 1..(i - 1) :
              _is_wiki_relation(Answered[j].p, _localname(Answered[j].p))
              \/ RelationSig(j) # RelationSig(i)}

\* the n-th smallest element of a set of numbers
RECURSIVE Nth(_, _)
Nth(set, n) ==
    LET least == CHOOSE i \in set : \A j \in set : i <= j IN
    IF n = 1 THEN least ELSE Nth(set \ {least}, n - 1)

\* C27: for every max_num >= 0, 0 included, fetch_dbpedia_triples returns at
\* most max_num triples: the first max_num distinct non-excluded relations in
\* the order the source answered them.
C27_FirstMaxNumRelations ==
    (pc = "returned" /\ Sent("select")) =>
        /\ Len(e_out) <= e_max_num
        /\ Len(e_out) = (IF e_max_num < Cardinality(Distinct)
                         THEN e_max_num ELSE Cardinality(Distinct))
        /\ \A k \in 1..Len(e_out) : e_out[k] = RelationOf(Nth(Distinct, k))

\* C28: the initial frontier does not depend on which records give a seed
\* edge: a record that lacks Deontic or Action gives no seed edge, yet its
\* Agent value is in the initial frontier and in the input queue of round 1,
\* where it is expanded (C28_Witness); a frontier term need not be the source
\* of an eventic edge.
C28_FrontierIndependentOfSeeds ==
    /\ Seeded =>
          /\ Len(final_edges) = CompleteUpTo(Len(eventic_edges))
          /\ {Lower(AgentValue(i)) : i \in 1..Len(eventic_edges)} \ {<<>>}
                \subseteq LowerTerms(agents_queue)
    /\ (Returned /\ Len(history) = 1) =>
          {Lower(AgentValue(i)) : i \in 1..Len(eventic_edges)} \ {<<>>}
              \subseteq LowerTerms(history[1].agents)

\* the only record lacks its Action: the graph returned has no eventic edge,
\* and an adapter was called for the record's agent in round 1 and found an edge
C28_Witness ==
    /\ eventic_edges = <<Ev_B_noAction>> /\ pc = "done"
    /\ Len(history) >= 1 /\ history[1].agents = <<s_B>>
    /\ Expanded(history[1], s_B)
    /\ history[1].new_edges # <<>>
    /\ \A k \in 1..Len(result) : result[k].source_graph # "eventic"

\* the term is backed by an edge of the round: some concept- or entity-tagged
\* edge of the round's new_edges has it as its target, but for case
Backed(h, term) ==
    \E k \in 1..Len(h.new_edges) :
        /\ h.new_edges[k].source_graph \in {"concept", "entity"}
        /\ Lower(h.new_edges[k].target) = Lower(term)

\* C29 as stated: every term of a round's next_frontier is
\* case-insensitively equal to the target of some concept- or entity-tagged
\* edge in the deduplicated new_edges that the same round returned.
C29_FrontierBackedByEdges ==
    \A i \in 1..Len(history) :
        \A k \in 1..Len(history[i].next_frontier) :
            Backed(history[i], history[i].next_frontier[k])

\* the triples the Concept and Entity adapters returned during the round that
\* discover the term: their whitespace-normalised target is the term, but for case
Discovering(h, term) ==
    {t \in UNION {Range(h.calls[j][3]) :
                    j \in {c \in 1..Len(h.calls) : h.calls[c][1] \in {"concept", "entity"}}} :
        Lower(_norm(t.target)) = Lower(term)}

\* C29, amended: every term of a round's next_frontier is, but for case, the
\* whitespace-normalised target of a triple that the Concept or Entity
\* adapter returned in that round, and no term of the round's input queue;
\* it is the target of a concept- or
\* entity-tagged edge of the round's new_edges exactly when one of these
\* triples has a non-empty source and relation after normalisation.
C29_FrontierFromReturnedTargets ==
    Returned =>
        \A k \in 1..Len(LastRound.next_frontier) :
            LET term == LastRound.next_frontier[k] IN
            /\ Discovering(LastRound, term) # {}
            /\ Lower(term) \notin LowerTerms(LastRound.agents)
            /\ Backed(LastRound, term) <=>
                  \E t \in Discovering(LastRound, term) :
                      _norm(t.source) # <<>> /\ _norm(t.relation) # <<>>

\* a round returned a frontier with a term whose only discovering triple has
\* an empty relation, next to a term that is backed by an edge
C29_Witness ==
    \E i \in 1..Len(history) :
        \E k, l \in 1..Len(history[i].next_frontier) :
            /\ ~Backed(history[i], history[i].next_frontier[k])
            /\ \A t \in Discovering(history[i], history[i].next_frontier[k]) :
                  t.relation = <<>>
            /\ Backed(history[i], history[i].next_frontier[l])

====
